---- MODULE Spec2Model ----
(***************************************************************************)
(* AI-Builder-Orchestrator: the agent registry (AgentManager), the         *)
(* delegation path (OrchestrationService.delegateToAIBuilder and           *)
(* executeTaskWithAgent) and the in-memory TaskQueue, as state machines.   *)
(*                                                                         *)
(* Every `await` of the source is a point where other handlers may run, so *)
(* a handler is cut into one action per stretch of code between awaits     *)
(* that touch shared state.  A function of AgentManager or TaskQueue that  *)
(* contains no await of its own runs to completion as one action.          *)
(***************************************************************************)
EXTENDS Integers, Sequences, FiniteSets, TLC

(***************************************************************************)
(* Bounds of the model                                                     *)
(***************************************************************************)
\* releaseTaskFromAgent may be called freely in SpecRegistry; totalTasks is capped
MaxTotal == 2
\* number of delegateToAIBuilder calls
MaxDelegations == 2
\* number of addTask calls
MaxTasks == 3
\* retryTask calls per task that succeed
MaxRetries == 1
\* tasks whose execution ever fails
MaxFailing == 1
\* rows of the autonomous_workflows table
MaxWorkflows == 1
\* SpecSelect: releases per agent
MaxSelectTotal == 1
\* SpecRace: completions of the executor
RaceCompletions == 1
\* processQueue loops alive at once (start() begins a new one each time)
MaxLoops == 1
\* SpecLoops: processQueue loops alive at once
MaxStarts == 2
\* SpecStore: rows of a table of the DatabaseManager
MaxStoreRows == 2
\* SpecClassify: words of a task description
MaxWords == 3
\* SpecJob: entries of toolsToExtract
MaxJobTools == 4
\* SpecJob: largest MAX_CONCURRENT_EXTRACTIONS of the environment
MaxJobEnv == 2

(***************************************************************************)
(* Program constants                                                       *)
(***************************************************************************)
\* agent-manager.js:132  max_concurrent_tasks || 5
DefaultMaxConcurrentTasks == 5
\* task-queue, line 56: this.processing.size < 10
MaxConcurrency == 10
\* knowledge-extraction job, line 56: parseInt(...) || 3
DefaultMaxConcurrentExtractions == 3

VARIABLES
  agents,       \* AgentManager.agents: Map name -> agent object
  agentOrder,   \* insertion order of the Map's keys (its iteration order)
  agentRet,     \* outcome of the last AgentManager call
  deleg,        \* the delegateToAIBuilder calls: position and locals of each
  dbTasks,      \* the store's task rows written by the delegations
  dbWorkflows,  \* the store's autonomous_workflows rows: how many there are
  toolResponse, \* what the last tool operation other than a delegation answered
  tasks,        \* the task objects addTask has created, in creation order
  queue,        \* TaskQueue.queue: an array of task objects (indices into tasks)
  processing,   \* TaskQueue.processing: a Set of task ids
  completed,    \* TaskQueue.completed: Map task id -> task object
  failed,       \* TaskQueue.failed: Map task id -> {task, error}
  isRunning,    \* TaskQueue.isRunning
  loops,        \* the processQueue loops alive, each waiting on its timer
  executing,    \* per task object: processTask calls awaiting executeTask
  rejected,     \* per task object: rejected processTask promises whose .catch
                \* callback (processQueue, lines 61-65) has not run yet
  queueRet,     \* what the last TaskQueue call answered: "ok" or the error thrown
  description,  \* the task description handed to the two classifiers of AgentManager
  derived,      \* what the classifier called last on it returned
  job,          \* the KnowledgeExtractionJob and the locals of its run()
  store         \* the DatabaseManager's tables ai_agents, tasks and
                \* task_execution_logs, and what its last statement answered

agentVars == <<agents, agentOrder, agentRet>>
toolVars == <<dbWorkflows, toolResponse>>
classifyVars == <<description, derived>>
\* the state no method of AgentManager, OrchestrationService or TaskQueue writes
otherVars == <<classifyVars, job, store>>
delegVars == <<deleg, dbTasks, toolVars, otherVars>>
queueVars ==
  <<tasks, queue, processing, completed, failed, isRunning, loops, executing,
    rejected, queueRet>>
vars == <<agents, agentOrder, agentRet, deleg, dbTasks, dbWorkflows, toolResponse,
          tasks, queue, processing, completed, failed, isRunning, loops, executing,
          rejected, queueRet, otherVars>>

(***************************************************************************)
(* Generic helpers                                                         *)
(***************************************************************************)
Range(s) == {s[i] : i \in 1..Len(s)}

Max(a, b) == IF a >= b THEN a ELSE b

\* Array.prototype.includes on an array
ArrIncludes(arr, x) == \E i \in 1..Len(arr) : arr[i] = x

\* Insertion of x into the sorted sequence s after every element that does not
\* sort after it; after[<<a, b>>] is "cmp(a, b) > 0", that is a sorts after b
RECURSIVE InsertSorted(_, _, _)
InsertSorted(s, x, after) ==
  IF s = <<>> THEN <<x>>
  ELSE IF after[<<Head(s), x>>] THEN <<x>> \o s
       ELSE <<Head(s)>> \o InsertSorted(Tail(s), x, after)

\* Array.prototype.sort(cmp): stable since ES2019 (the image runs node 18)
RECURSIVE StableSort(_, _)
StableSort(s, after) ==
  IF s = <<>> THEN <<>>
  ELSE InsertSorted(StableSort(SubSeq(s, 1, Len(s) - 1), after), s[Len(s)], after)

(***************************************************************************)
(* Strings are sequences of characters, so that toLowerCase and includes   *)
(* are computed and not assumed                                            *)
(***************************************************************************)
UpperToLower ==
  [c \in {"A", "B", "D", "F", "I", "P", "T"} |->
     CASE c = "A" -> "a" [] c = "B" -> "b" [] c = "D" -> "d" [] c = "F" -> "f"
       [] c = "I" -> "i" [] c = "P" -> "p" [] c = "T" -> "t"]

\* String.prototype.toLowerCase
toLowerCase(s) ==
  [i \in 1..Len(s) |-> IF s[i] \in DOMAIN UpperToLower THEN UpperToLower[s[i]] ELSE s[i]]

\* String.prototype.includes
includes(s, sub) ==
  \E i \in 0..(Len(s) - Len(sub)) : SubSeq(s, i + 1, i + Len(sub)) = sub


(***************************************************************************)
(* Inputs: agent specifications, task descriptions, project contexts       *)
(***************************************************************************)
\* registerDefaultAgents' "devin" and "claude" entries; max_concurrent_tasks
\* is varied so that an agent's capacity is reached within the bounds, and 0
\* stands for an absent max_concurrent_tasks (undefined || 5 and 0 || 5 agree)
devinCapabilities ==
  <<"full_stack_development", "code_generation", "testing", "debugging",
    "deployment", "documentation", "refactoring", "architecture_design">>

claudeCapabilities ==
  <<"code_generation", "code_review", "documentation", "planning", "analysis",
    "problem_solving", "architecture_design">>

devinSpec(max) ==
  [name |-> "devin", type |-> "ai_builder", capabilities |-> devinCapabilities,
   configuration |->
     [max_concurrent_tasks |-> max,
      preferred_languages |-> <<"javascript", "typescript", "python", "go", "rust">>,
      specializations |-> <<"web_development", "api_development", "microservices">>]]

claudeSpec(max) ==
  [name |-> "claude", type |-> "ai_assistant", capabilities |-> claudeCapabilities,
   configuration |->
     [max_concurrent_tasks |-> max,
      preferred_languages |->
        <<"javascript", "typescript", "python", "go", "rust", "java">>,
      specializations |-> <<"reasoning", "planning", "complex_problem_solving">>]]

AgentSpecs == {devinSpec(1), devinSpec(2), claudeSpec(0), claudeSpec(1)}

AgentNames == {sp.name : sp \in AgentSpecs}

\* task descriptions (args.task)
TextBuildLogin == <<"b", "u", "i", "l", "d", " ", "t", "h", "e", " ", "l", "o", "g", "i", "n", " ", "p", "a", "g", "e">>
TextDeployApi == <<"D", "e", "p", "l", "o", "y", " ", "A", "P", "I">>
TaskTexts == {TextBuildLogin, TextDeployApi}

\* args.project_context
ProjectContexts ==
  {[technology_stack |-> <<>>, priority |-> "high"],
   [technology_stack |-> <<"python", "java">>, priority |-> "medium"]}

(***************************************************************************)
(* AgentManager                                                            *)
(***************************************************************************)
\* successRate is completedTasks / totalTasks: kept as the fraction it was
\* computed from, compared by cross-multiplication
Fraction(n, d) == [num |-> n, den |-> d]
FracEq(x, y) == x.num * y.den = y.num * x.den

\* the agent object registerAgent builds
newAgent(agentData) ==
  [name |-> agentData.name,
   type |-> agentData.type,
   status |-> "active",
   capabilities |-> agentData.capabilities,
   configuration |-> agentData.configuration,
   currentTasks |-> 0,
   maxConcurrentTasks |->
     IF agentData.configuration.max_concurrent_tasks # 0
     THEN agentData.configuration.max_concurrent_tasks
     ELSE DefaultMaxConcurrentTasks,
   performance |->
     [totalTasks |-> 0, completedTasks |-> 0, failedTasks |-> 0,
      successRate |-> Fraction(0, 1)]]

\* this.agents.set(name, agent): a new key goes last, an existing key keeps its place
mapSet(ags, name, agent) ==
  [n \in (DOMAIN ags) \cup {name} |-> IF n = name THEN agent ELSE ags[n]]

\* a Map whose set moves an existing key to the end, keeping the old entry
orderSet_append(order, name) == Append(order, name)

orderSet(order, name) ==
  IF ArrIncludes(order, name) THEN order ELSE Append(order, name)

\* assignTaskToAgent with the capacity test off by one (> for >=)
assignOutcome_offByOne(ags, agentName) ==
  IF agentName \notin DOMAIN ags THEN "NotFound"
  ELSE IF ags[agentName].currentTasks > ags[agentName].maxConcurrentTasks
       THEN "AtCapacity"
       ELSE "ok"

\* assignTaskToAgent: the two throws, in the order of the code
assignOutcome(ags, agentName) ==
  IF agentName \notin DOMAIN ags THEN "NotFound"
  ELSE IF ags[agentName].currentTasks >= ags[agentName].maxConcurrentTasks
       THEN "AtCapacity"
       ELSE "ok"

\* assignTaskToAgent: agent.currentTasks++
assignedAgent(agent) == [agent EXCEPT !.currentTasks = @ + 1]

\* releaseTaskFromAgent recomputing successRate only on a success
releasedAgent_staleRate(agent, success) ==
  LET p == agent.performance
      total == p.totalTasks + 1
      done == IF success THEN p.completedTasks + 1 ELSE p.completedTasks
      bad == IF success THEN p.failedTasks ELSE p.failedTasks + 1
  IN [agent EXCEPT
        !.currentTasks = Max(0, @ - 1),
        !.performance =
          [totalTasks |-> total, completedTasks |-> done, failedTasks |-> bad,
           successRate |-> IF success THEN Fraction(done, total) ELSE p.successRate]]

\* releaseTaskFromAgent: the counters after a release
releasedAgent(agent, success) ==
  LET p == agent.performance
      total == p.totalTasks + 1
      done == IF success THEN p.completedTasks + 1 ELSE p.completedTasks
      bad == IF success THEN p.failedTasks ELSE p.failedTasks + 1
  IN [agent EXCEPT
        !.currentTasks = Max(0, @ - 1),
        !.performance =
          [totalTasks |-> total, completedTasks |-> done, failedTasks |-> bad,
           successRate |-> Fraction(done, total)]]

\* assignTaskToAgent with the capacity test after the increment
agentsAfterAssign_unguarded(ags, agentName) ==
  IF agentName \in DOMAIN ags
  THEN [ags EXCEPT ![agentName] = assignedAgent(@)]
  ELSE ags

\* the registry after assignTaskToAgent(agentName) (unchanged when it throws)
agentsAfterAssign(ags, agentName) ==
  IF assignOutcome(ags, agentName) = "ok"
  THEN [ags EXCEPT ![agentName] = assignedAgent(@)]
  ELSE ags

\* the registry after releaseTaskFromAgent(agentName, taskId, success): an unknown
\* name is logged and ignored
agentsAfterRelease(ags, agentName, success) ==
  IF agentName \notin DOMAIN ags THEN ags
  ELSE [ags EXCEPT ![agentName] = releasedAgent(@, success)]

AgentRet(op, name, out) == [op |-> op, name |-> name, out |-> out]

\* The methods, as changes of the registry.  What the caller gets back (agentRet)
\* is recorded where the method is called from outside, in NextRegistry
registerAgent(agentData) ==
  /\ agents' = mapSet(agents, agentData.name, newAgent(agentData))
  /\ agentOrder' = orderSet(agentOrder, agentData.name)

assignTaskToAgent(agentName) ==
  /\ agents' = agentsAfterAssign(agents, agentName)
  /\ UNCHANGED agentOrder

releaseTaskFromAgent(agentName, success) ==
  /\ agents' = agentsAfterRelease(agents, agentName, success)
  /\ UNCHANGED agentOrder

\* a deactivation that also drops the agent's reservations
setStatus_dropsReservations(agentName, status) ==
  /\ agents' = IF agentName \in DOMAIN agents
               THEN [agents EXCEPT ![agentName].status = status,
                                   ![agentName].currentTasks =
                                      IF status = "inactive" THEN 0 ELSE @]
               ELSE agents
  /\ UNCHANGED agentOrder

\* deactivateAgent / activateAgent: the throw for an unknown name changes nothing
setStatus(agentName, status) ==
  /\ agents' = IF agentName \in DOMAIN agents
               THEN [agents EXCEPT ![agentName].status = status]
               ELSE agents
  /\ UNCHANGED agentOrder

statusOutcome(ags, agentName) == IF agentName \in DOMAIN ags THEN "ok" ELSE "NotFound"

deactivateAgent(agentName) == setStatus(agentName, "inactive")

activateAgent(agentName) == setStatus(agentName, "active")

(***************************************************************************)
(* AgentManager.selectBestAgent                                            *)
(***************************************************************************)
\* capabilities.push(...) when the description includes one of the triggers
pushIf(caps, taskLower, triggers, added) ==
  IF \E t \in triggers : includes(taskLower, t) THEN caps \o added ELSE caps

\* extractRequiredCapabilities: an array, in the order of the pushes
extractRequiredCapabilities(task) ==
  LET taskLower == toLowerCase(task)
      c1 == pushIf(<<>>, taskLower, {<<"b", "u", "i", "l", "d">>, <<"c", "o", "m", "p", "i", "l", "e">>}, <<"code_generation", "testing">>)
      c2 == pushIf(c1, taskLower, {<<"t", "e", "s", "t">>, <<"t", "e", "s", "t", "i", "n", "g">>}, <<"testing">>)
      c3 == pushIf(c2, taskLower, {<<"d", "e", "p", "l", "o", "y">>, <<"d", "e", "p", "l", "o", "y", "m", "e", "n", "t">>}, <<"deployment">>)
      c4 == pushIf(c3, taskLower, {<<"d", "e", "b", "u", "g">>, <<"f", "i", "x">>}, <<"debugging">>)
      c5 == pushIf(c4, taskLower, {<<"r", "e", "f", "a", "c", "t", "o", "r">>, <<"o", "p", "t", "i", "m", "i", "z", "e">>}, <<"refactoring">>)
      c6 == pushIf(c5, taskLower, {<<"d", "o", "c", "u", "m", "e", "n", "t">>, <<"r", "e", "a", "d", "m", "e">>}, <<"documentation">>)
      c7 == pushIf(c6, taskLower, {<<"a", "r", "c", "h", "i", "t", "e", "c", "t", "u", "r", "e">>, <<"d", "e", "s", "i", "g", "n">>}, <<"architecture_design">>)
      c8 == pushIf(c7, taskLower, {<<"r", "e", "v", "i", "e", "w">>, <<"a", "n", "a", "l", "y", "z", "e">>}, <<"code_review", "analysis">>)
  IN IF Len(c8) = 0 THEN <<"code_generation", "problem_solving">> ELSE c8

\* determineTaskType with the api rule tested before the web rule
determineTaskType_apiFirst(task) ==
  LET taskLower == toLowerCase(task)
      has(kws) == \E k \in kws : includes(taskLower, k)
  IN IF has({<<"a", "p", "i">>, <<"b", "a", "c", "k", "e", "n", "d">>, <<"s", "e", "r", "v", "e", "r">>}) THEN "api_development"
     ELSE IF has({<<"w", "e", "b">>, <<"f", "r", "o", "n", "t", "e", "n", "d">>, <<"r", "e", "a", "c", "t">>, <<"v", "u", "e">>}) THEN "web_development"
     ELSE IF has({<<"m", "i", "c", "r", "o", "s", "e", "r", "v", "i", "c", "e">>, <<"s", "e", "r", "v", "i", "c", "e">>}) THEN "microservices"
     ELSE IF has({<<"m", "o", "b", "i", "l", "e">>, <<"a", "p", "p">>}) THEN "mobile_development"
     ELSE IF has({<<"d", "a", "t", "a">>, <<"m", "l">>, <<"a", "i">>}) THEN "data_science"
     ELSE "general_development"

\* AgentManager.determineTaskType: the first rule with a keyword in the description
determineTaskType(task) ==
  LET taskLower == toLowerCase(task)
      has(kws) == \E k \in kws : includes(taskLower, k)
  IN IF has({<<"w", "e", "b">>, <<"f", "r", "o", "n", "t", "e", "n", "d">>, <<"r", "e", "a", "c", "t">>, <<"v", "u", "e">>}) THEN "web_development"
     ELSE IF has({<<"a", "p", "i">>, <<"b", "a", "c", "k", "e", "n", "d">>, <<"s", "e", "r", "v", "e", "r">>}) THEN "api_development"
     ELSE IF has({<<"m", "i", "c", "r", "o", "s", "e", "r", "v", "i", "c", "e">>, <<"s", "e", "r", "v", "i", "c", "e">>}) THEN "microservices"
     ELSE IF has({<<"m", "o", "b", "i", "l", "e">>, <<"a", "p", "p">>}) THEN "mobile_development"
     ELSE IF has({<<"d", "a", "t", "a">>, <<"m", "l">>, <<"a", "i">>}) THEN "data_science"
     ELSE "general_development"

\* a filter on the status alone
getAvailableAgents_ignoresLoad(ags, order) ==
  SelectSeq(order, LAMBDA n : ags[n].status = "active")

\* getAvailableAgents: the Map's values in iteration order, filtered
getAvailableAgents(ags, order) ==
  SelectSeq(order, LAMBDA n :
    ags[n].status = "active" /\ ags[n].currentTasks < ags[n].maxConcurrentTasks)

\* extractRequiredCapabilities and determineTaskType of the task descriptions,
\* tabulated: both depend on the description alone
requiredCapabilitiesOf == [task \in TaskTexts |-> extractRequiredCapabilities(task)]

taskTypeOf == [task \in TaskTexts |-> determineTaskType(task)]

\* selectBestAgent, lines 181-183: requiredCapabilities.filter(cap =>
\* agent.capabilities.includes(cap)), an array as long as the entries that match
matchingOf(agent, requiredCapabilities) ==
  SelectSeq(requiredCapabilities, LAMBDA cap : ArrIncludes(agent.capabilities, cap))

\* the score selectBestAgent gives an agent, as an exact fraction
agentScore(agent, task, projectContext) ==
  LET rate == agent.performance.successRate
      requiredCapabilities == requiredCapabilitiesOf[task]
      matchingCapabilities == matchingOf(agent, requiredCapabilities)
      preferredLanguages == projectContext.technology_stack
      matchingLanguages ==
        SelectSeq(preferredLanguages, LAMBDA lang :
          ArrIncludes(agent.configuration.preferred_languages, lang))
      R == Len(requiredCapabilities)
      L == Max(Len(preferredLanguages), 1)
      M == agent.maxConcurrentTasks
      bonus == IF ArrIncludes(agent.configuration.specializations,
                              taskTypeOf[task]) THEN 20 ELSE 0
      den == rate.den * R * L * M
  IN Fraction(rate.num * 100 * R * L * M
                + Len(matchingCapabilities) * 50 * rate.den * L * M
                + Len(matchingLanguages) * 30 * rate.den * R * M
                + bonus * den
                - agent.currentTasks * 20 * rate.den * R * L,
              den)

FracGt(x, y) == x.num * y.den > y.num * x.den

\* the last of the available agents sorted by descending score
selectBestAgent_lowest(ags, order, task, projectContext) ==
  LET availableAgents == getAvailableAgents(ags, order)
      names == Range(availableAgents)
      scoredAgents == [n \in names |-> agentScore(ags[n], task, projectContext)]
      after == [pr \in names \X names |->
                  FracGt(scoredAgents[pr[2]], scoredAgents[pr[1]])]
  IN IF Len(availableAgents) = 0 THEN "none"
     ELSE StableSort(availableAgents, after)[Len(availableAgents)]

\* selectBestAgent: the head of the available agents sorted by descending score;
\* "none" stands for the throw 'No available agents found'
selectBestAgent(ags, order, task, projectContext) ==
  LET availableAgents == getAvailableAgents(ags, order)
      names == Range(availableAgents)
      \* availableAgents.map(agent => ({ agent, score }))
      scoredAgents == [n \in names |-> agentScore(ags[n], task, projectContext)]
      \* (a, b) => b.score - a.score is positive when b scores more
      after == [pr \in names \X names |->
                  FracGt(scoredAgents[pr[2]], scoredAgents[pr[1]])]
  IN IF Len(availableAgents) = 0 THEN "none"
     ELSE StableSort(availableAgents, after)[1]

(***************************************************************************)
(* Initial state: the objects as their constructors leave them             *)
(***************************************************************************)
NoRet == AgentRet("none", "none", "none")

EmptyMap == [k \in {} |-> 0]

NoQueueRet == "none"

\* a delegateToAIBuilder call that has not been made yet.  reserved, relOk and
\* relFail record the assignTaskToAgent / releaseTaskFromAgent calls it has made,
\* executor what the Task Executor did for it
NoDelegation ==
  [pc |-> "idle", agent |-> "none", reserved |-> FALSE, relOk |-> 0, relFail |-> 0,
   executor |-> "none", response |-> "none"]

\* no row in the tasks table for this task_id
NoRow == [status |-> "none", progress |-> 0, error |-> FALSE]

\* no tool operation has answered yet
NoToolResponse == [tool |-> "none", kind |-> "none", text |-> "none"]

\* no KnowledgeExtractionJob has been constructed
NoJob == [pc |-> "none"]

\* neither classifier has been called
NoDerived == [op |-> "none", capabilities |-> <<>>, taskType |-> "none"]

\* an id of the store: uuid(k) is the k-th value of uuidv4() (the id of an
\* in-memory agent, or a taskId of delegateToAIBuilder), rowid(k) the k-th value
\* of an INTEGER PRIMARY KEY AUTOINCREMENT column; NoId is no value
uuid(k) == [kind |-> "uuid", n |-> k]
rowid(k) == [kind |-> "rowid", n |-> k]
NoId == [kind |-> "none", n |-> 0]

\* the DatabaseManager after initialize() on a new database file: the tables of
\* createTables, empty
NoStore ==
  [ai_agents |-> <<>>, agentSeq |-> 0, tasks |-> <<>>, taskSeq |-> 0, logs |-> <<>>,
   ret |-> [op |-> "none", task_id |-> NoId, agent_id |-> NoId, status |-> "none",
            columns |-> {}, outcome |-> "none"]]

\* the registry, the service, the store and the queue after construction
InitComponents ==
  /\ agents = [n \in {} |-> 0]
  /\ agentOrder = <<>>
  /\ agentRet = NoRet
  /\ deleg = [d \in 1..MaxDelegations |-> NoDelegation]
  /\ dbTasks = [d \in 1..MaxDelegations |-> NoRow]
  /\ dbWorkflows = 0
  /\ toolResponse = NoToolResponse
  /\ tasks = <<>>
  /\ queue = <<>>
  /\ processing = {}
  /\ completed = EmptyMap
  /\ failed = EmptyMap
  /\ isRunning = FALSE
  /\ loops = 0
  /\ executing = <<>>
  /\ rejected = <<>>
  /\ queueRet = NoQueueRet

Init ==
  /\ InitComponents
  /\ description = <<>>
  /\ derived = NoDerived
  /\ job = NoJob
  /\ store = NoStore

(***************************************************************************)
(* SpecRegistry: the AgentManager under any sequence of calls              *)
(***************************************************************************)
NextRegistry ==
  \/ \E sp \in AgentSpecs :
       /\ registerAgent(sp)
       /\ agentRet' = AgentRet("registerAgent", sp.name, "ok")
       /\ UNCHANGED <<delegVars, queueVars>>
  \/ \E n \in AgentNames :
       /\ assignTaskToAgent(n)
       /\ agentRet' = AgentRet("assignTaskToAgent", n, assignOutcome(agents, n))
       /\ UNCHANGED <<delegVars, queueVars>>
  \/ \E n \in AgentNames, ok \in BOOLEAN :
       /\ n \in DOMAIN agents => agents[n].performance.totalTasks < MaxTotal
       /\ releaseTaskFromAgent(n, ok)
       /\ agentRet' = AgentRet("releaseTaskFromAgent", n, "ok")
       /\ UNCHANGED <<delegVars, queueVars>>
  \/ \E n \in AgentNames :
       /\ deactivateAgent(n)
       /\ agentRet' = AgentRet("deactivateAgent", n, statusOutcome(agents, n))
       /\ UNCHANGED <<delegVars, queueVars>>
  \/ \E n \in AgentNames :
       /\ activateAgent(n)
       /\ agentRet' = AgentRet("activateAgent", n, statusOutcome(agents, n))
       /\ UNCHANGED <<delegVars, queueVars>>

SpecRegistry == Init /\ [][NextRegistry]_vars


(***************************************************************************)
(* SpecSelect: selectBestAgent called on the registries that registerAgent,*)
(* assignTaskToAgent, releaseTaskFromAgent, deactivateAgent and            *)
(* activateAgent produce.  Two of the agents differ in nothing but their   *)
(* name; the third lacks the testing capability.  Only the answer of       *)
(* selectBestAgent is kept in agentRet.                                    *)
(***************************************************************************)
builderSpec(name) ==
  [name |-> name, type |-> "ai_builder",
   capabilities |-> <<"code_generation", "testing">>,
   configuration |->
     [max_concurrent_tasks |-> 1,
      preferred_languages |-> <<"python">>,
      specializations |-> <<"api_development">>]]

SelectAgentSpecs == {builderSpec("atlas"), builderSpec("bolt"), claudeSpec(1)}

SelectAgentNames == {sp.name : sp \in SelectAgentSpecs}

\* a call of selectBestAgent from outside: the registry is only read
select(task, projectContext) ==
  /\ LET selected == selectBestAgent(agents, agentOrder, task, projectContext) IN
       agentRet' = AgentRet("selectBestAgent", selected,
                            IF selected = "none" THEN "NoAvailableAgents" ELSE "ok")
  /\ UNCHANGED <<agents, agentOrder, delegVars, queueVars>>

NextSelect ==
  \/ \E sp \in SelectAgentSpecs :
       /\ sp.name \notin DOMAIN agents
       /\ registerAgent(sp)
       /\ agentRet' = NoRet
       /\ UNCHANGED <<delegVars, queueVars>>
  \/ \E n \in DOMAIN agents :
       /\ assignOutcome(agents, n) = "ok"
       /\ assignTaskToAgent(n)
       /\ agentRet' = NoRet
       /\ UNCHANGED <<delegVars, queueVars>>
  \/ \E n \in DOMAIN agents, ok \in BOOLEAN :
       /\ agents[n].currentTasks > 0
       /\ agents[n].performance.totalTasks < MaxSelectTotal
       /\ releaseTaskFromAgent(n, ok)
       /\ agentRet' = NoRet
       /\ UNCHANGED <<delegVars, queueVars>>
  \/ \E n \in DOMAIN agents :
       /\ deactivateAgent(n)
       /\ agentRet' = NoRet
       /\ UNCHANGED <<delegVars, queueVars>>
  \/ \E n \in DOMAIN agents :
       /\ activateAgent(n)
       /\ agentRet' = NoRet
       /\ UNCHANGED <<delegVars, queueVars>>
  \/ \E task \in TaskTexts, projectContext \in ProjectContexts :
       select(task, projectContext)

SpecSelect == Init /\ [][NextSelect]_vars

(***************************************************************************)
(* SpecClassify: extractRequiredCapabilities and determineTaskType applied *)
(* to task descriptions of up to MaxWords words.  Several words name a     *)
(* trigger of a capability rule or a keyword of a domain rule, two are     *)
(* written with capitals, one names none.                                  *)
(***************************************************************************)
Words ==
  {<<"b", "u", "i", "l", "d">>,
   <<"t", "e", "s", "t">>,
   <<"D", "e", "p", "l", "o", "y">>,
   <<"r", "e", "v", "i", "e", "w">>,
   <<"w", "e", "b">>,
   <<"A", "P", "I">>,
   <<"s", "e", "r", "v", "i", "c", "e">>,
   <<"a", "p", "p">>,
   <<"d", "a", "t", "a">>,
   <<"p", "a", "g", "e">>}

RECURSIVE joinWords(_)
joinWords(ws) ==
  IF Len(ws) = 1 THEN ws[1] ELSE ws[1] \o <<" ">> \o joinWords(Tail(ws))

Descriptions == {joinWords(ws) : ws \in UNION {[1..k -> Words] : k \in 1..MaxWords}}

InitClassify ==
  /\ InitComponents
  /\ description \in Descriptions
  /\ derived = NoDerived
  /\ job = NoJob
  /\ store = NoStore

\* this.extractRequiredCapabilities(task, projectContext), as selectBestAgent
\* calls it
call_extractRequiredCapabilities ==
  /\ derived' = [op |-> "extractRequiredCapabilities",
                 capabilities |-> extractRequiredCapabilities(description),
                 taskType |-> "none"]
  /\ UNCHANGED <<agentVars, deleg, dbTasks, toolVars, queueVars, description, job, store>>

\* this.determineTaskType(task, projectContext), as selectBestAgent calls it
call_determineTaskType ==
  /\ derived' = [op |-> "determineTaskType", capabilities |-> <<>>,
                 taskType |-> determineTaskType(description)]
  /\ UNCHANGED <<agentVars, deleg, dbTasks, toolVars, queueVars, description, job, store>>

NextClassify ==
  \/ call_extractRequiredCapabilities
  \/ call_determineTaskType

SpecClassify == InitClassify /\ [][NextClassify]_vars

(***************************************************************************)
(* OrchestrationService.delegateToAIBuilder and executeTaskWithAgent       *)
(*                                                                         *)
(* One action per awaited call.  A call of the persistent store either     *)
(* returns or throws (storeOk); the Task Executor either returns a result  *)
(* or throws (execOk).                                                     *)
(***************************************************************************)
DelegationArgs ==
  [hasTask : BOOLEAN, task : TaskTexts, project_context : ProjectContexts,
   preferred_agent : {"auto", "devin", "ghost"}]

\* the catch of delegateToAIBuilder: an error response, nothing else
errorResponse(rec, message) == [rec EXCEPT !.pc = "done", !.response = message]

\* DatabaseManager.updateTaskStatus on the row of a task
updateTaskStatus(row, status, progress, hasError) ==
  IF row.status = "none" THEN row
  ELSE [status |-> status, progress |-> progress, error |-> hasError \/ row.error]

\* lines 20-36 without the two throws: a missing description and an unknown
\* preferred agent go on to database.createTask
delegate_selectAgent_unchecked(d, args) ==
  /\ deleg[d].pc = "idle"
  /\ d > 1 => deleg[d - 1].pc # "idle"
  /\ LET selected ==
           IF args.preferred_agent # "auto"
           THEN args.preferred_agent
           ELSE selectBestAgent(agents, agentOrder, args.task, args.project_context)
     IN deleg' = [deleg EXCEPT ![d] =
          IF selected = "none" THEN errorResponse(@, "NoAvailableAgents")
          ELSE [@ EXCEPT !.pc = "createTask", !.agent = selected]]
  /\ UNCHANGED <<agentVars, dbTasks, queueVars, toolVars, otherVars>>

\* lines 20-36: the argument check and the choice of the agent
delegate_selectAgent(d, args) ==
  /\ deleg[d].pc = "idle"
  /\ d > 1 => deleg[d - 1].pc # "idle"
  /\ LET selected ==
           IF args.preferred_agent # "auto"
           THEN IF args.preferred_agent \in DOMAIN agents
                THEN args.preferred_agent ELSE "none"
           ELSE selectBestAgent(agents, agentOrder, args.task, args.project_context)
     IN deleg' = [deleg EXCEPT ![d] =
          IF ~args.hasTask THEN errorResponse(@, "TaskRequired")
          ELSE IF selected = "none"
               THEN errorResponse(@, IF args.preferred_agent # "auto"
                                     THEN "PreferredNotFound" ELSE "NoAvailableAgents")
               ELSE [@ EXCEPT !.pc = "createTask", !.agent = selected]]
  /\ UNCHANGED <<agentVars, dbTasks, queueVars, toolVars, otherVars>>

\* lines 38-46: database.createTask; the row starts with the table's default status
delegate_createTask(d, storeOk) ==
  /\ deleg[d].pc = "createTask"
  /\ IF storeOk
     THEN /\ dbTasks' = [dbTasks EXCEPT ![d] =
                           [status |-> "pending", progress |-> 0, error |-> FALSE]]
          /\ deleg' = [deleg EXCEPT ![d].pc = "assign"]
     ELSE /\ deleg' = [deleg EXCEPT ![d] = errorResponse(@, "StoreError")]
          /\ UNCHANGED dbTasks
  /\ UNCHANGED <<agentVars, queueVars, toolVars, otherVars>>

\* line 49: agentManager.assignTaskToAgent(selectedAgent.name, taskId)
delegate_assign(d) ==
  /\ deleg[d].pc = "assign"
  /\ LET out == assignOutcome(agents, deleg[d].agent) IN
       /\ agents' = agentsAfterAssign(agents, deleg[d].agent)
       /\ deleg' = [deleg EXCEPT ![d] =
            IF out = "ok" THEN [@ EXCEPT !.pc = "markInProgress", !.reserved = TRUE]
            ELSE errorResponse(@, out)]
  /\ UNCHANGED <<agentOrder, agentRet, dbTasks, queueVars, toolVars, otherVars>>

\* line 52: database.updateTaskStatus(taskId, 'in_progress', 0)
delegate_markInProgress(d, storeOk) ==
  /\ deleg[d].pc = "markInProgress"
  /\ IF storeOk
     THEN /\ dbTasks' = [dbTasks EXCEPT ![d] = updateTaskStatus(@, "in_progress", 0, FALSE)]
          /\ deleg' = [deleg EXCEPT ![d].pc = "logAssigned"]
     ELSE /\ deleg' = [deleg EXCEPT ![d] = errorResponse(@, "StoreError")]
          /\ UNCHANGED dbTasks
  /\ UNCHANGED <<agentVars, queueVars, toolVars, otherVars>>

\* lines 55-58: database.logTaskExecution(..., 'task_assigned', ...)
delegate_logAssigned(d, storeOk) ==
  /\ deleg[d].pc = "logAssigned"
  /\ deleg' = [deleg EXCEPT ![d] =
       IF storeOk THEN [@ EXCEPT !.pc = "execute"] ELSE errorResponse(@, "StoreError")]
  /\ UNCHANGED <<agentVars, dbTasks, queueVars, toolVars, otherVars>>

\* executeTaskWithAgent, lines 99-118: the Task Executor
execute_run(d, execOk) ==
  /\ deleg[d].pc = "execute"
  /\ deleg' = [deleg EXCEPT ![d].pc = IF execOk THEN "markCompleted" ELSE "markFailed",
                            ![d].executor = IF execOk THEN "returned" ELSE "failed"]
  /\ UNCHANGED <<agentVars, dbTasks, queueVars, toolVars, otherVars>>

\* line 121: database.updateTaskStatus(taskId, 'completed', 100, result)
execute_markCompleted(d, storeOk) ==
  /\ deleg[d].pc = "markCompleted"
  /\ IF storeOk
     THEN /\ dbTasks' = [dbTasks EXCEPT ![d] = updateTaskStatus(@, "completed", 100, FALSE)]
          /\ deleg' = [deleg EXCEPT ![d].pc = "releaseOk"]
     ELSE /\ deleg' = [deleg EXCEPT ![d].pc = "markFailed"]
          /\ UNCHANGED dbTasks
  /\ UNCHANGED <<agentVars, queueVars, toolVars, otherVars>>

\* line 122: agentManager.releaseTaskFromAgent(agent.name, taskId, true)
execute_releaseOk(d) ==
  /\ deleg[d].pc = "releaseOk"
  /\ agents' = agentsAfterRelease(agents, deleg[d].agent, TRUE)
  /\ deleg' = [deleg EXCEPT ![d].pc = "logCompleted", ![d].relOk = @ + 1]
  /\ UNCHANGED <<agentOrder, agentRet, dbTasks, queueVars, toolVars, otherVars>>

\* lines 125-130: database.logTaskExecution(..., 'task_completed', ...); return result
execute_logCompleted(d, storeOk) ==
  /\ deleg[d].pc = "logCompleted"
  /\ deleg' = [deleg EXCEPT ![d] =
       IF storeOk THEN [@ EXCEPT !.pc = "done", !.response = "ok"]
       ELSE [@ EXCEPT !.pc = "markFailed"]]
  /\ UNCHANGED <<agentVars, dbTasks, queueVars, toolVars, otherVars>>

\* the catch, line 135: database.updateTaskStatus(taskId, 'failed', 0, null, message);
\* a throw here leaves executeTaskWithAgent
execute_markFailed(d, storeOk) ==
  /\ deleg[d].pc = "markFailed"
  /\ IF storeOk
     THEN /\ dbTasks' = [dbTasks EXCEPT ![d] = updateTaskStatus(@, "failed", 0, TRUE)]
          /\ deleg' = [deleg EXCEPT ![d].pc = "releaseFail"]
     ELSE /\ deleg' = [deleg EXCEPT ![d] = errorResponse(@, "StoreError")]
          /\ UNCHANGED dbTasks
  /\ UNCHANGED <<agentVars, queueVars, toolVars, otherVars>>

\* the catch, line 136: agentManager.releaseTaskFromAgent(agent.name, taskId, false)
execute_releaseFail(d) ==
  /\ deleg[d].pc = "releaseFail"
  /\ agents' = agentsAfterRelease(agents, deleg[d].agent, FALSE)
  /\ deleg' = [deleg EXCEPT ![d].pc = "logFailed", ![d].relFail = @ + 1]
  /\ UNCHANGED <<agentOrder, agentRet, dbTasks, queueVars, toolVars, otherVars>>

\* the catch, lines 139-144: database.logTaskExecution(..., 'task_failed', ...) and
\* throw error: the delegation answers with an error either way
execute_logFailed(d, storeOk) ==
  /\ deleg[d].pc = "logFailed"
  /\ deleg' = [deleg EXCEPT ![d] =
       errorResponse(@, IF storeOk THEN "ExecutionError" ELSE "StoreError")]
  /\ UNCHANGED <<agentVars, dbTasks, queueVars, toolVars, otherVars>>

Delegations == 1..MaxDelegations

\* the agents registered while delegations run: one that takes two tasks at a
\* time and one that takes a single task
DelegationAgentSpecs == {devinSpec(2), claudeSpec(1)}

NextDelegation ==
  \/ \E sp \in DelegationAgentSpecs :
       registerAgent(sp) /\ UNCHANGED <<agentRet, delegVars, queueVars>>
  \/ \E n \in DOMAIN agents : deactivateAgent(n) /\ UNCHANGED <<agentRet, delegVars, queueVars>>
  \/ \E n \in DOMAIN agents : activateAgent(n) /\ UNCHANGED <<agentRet, delegVars, queueVars>>
  \/ \E d \in Delegations, args \in DelegationArgs : delegate_selectAgent(d, args)
  \/ \E d \in Delegations, storeOk \in BOOLEAN : delegate_createTask(d, storeOk)
  \/ \E d \in Delegations : delegate_assign(d)
  \/ \E d \in Delegations, storeOk \in BOOLEAN : delegate_markInProgress(d, storeOk)
  \/ \E d \in Delegations, storeOk \in BOOLEAN : delegate_logAssigned(d, storeOk)
  \/ \E d \in Delegations, execOk \in BOOLEAN : execute_run(d, execOk)
  \/ \E d \in Delegations, storeOk \in BOOLEAN : execute_markCompleted(d, storeOk)
  \/ \E d \in Delegations : execute_releaseOk(d)
  \/ \E d \in Delegations, storeOk \in BOOLEAN : execute_logCompleted(d, storeOk)
  \/ \E d \in Delegations, storeOk \in BOOLEAN : execute_markFailed(d, storeOk)
  \/ \E d \in Delegations : execute_releaseFail(d)
  \/ \E d \in Delegations, storeOk \in BOOLEAN : execute_logFailed(d, storeOk)

Spec == Init /\ [][NextDelegation]_vars

(***************************************************************************)
(* The other tool operations of OrchestrationService and the tool handler  *)
(* of the server.  Each operation is one try/catch around its whole body:  *)
(* `outcome` is "ok" when the try block reaches its return and the message *)
(* of the error thrown otherwise.                                          *)
(***************************************************************************)
\* what the try/catch answers with an exception in place of the error response
toolAnswer_rethrows(tool, outcome) ==
  [tool |-> tool, kind |-> IF outcome = "ok" THEN "content" ELSE "exception",
   text |-> outcome]

\* what the try/catch answers: { content: [{ type: 'text', text }] } on both paths
toolAnswer(tool, outcome) == [tool |-> tool, kind |-> "content", text |-> outcome]

\* task_id: 0 is an absent task_id, MaxDelegations + 1 an id no task has
MonitorArgs ==
  [task_id : 0..(MaxDelegations + 1), agent_id : {"devin", "ghost"}]

\* monitorAIBuilder, part_002 lines 221-264
monitorAIBuilder(args, storeOk) ==
  /\ LET outcome ==
           IF args.task_id = 0 THEN "TaskIdRequired"
           ELSE IF ~storeOk THEN "StoreError"
           ELSE IF args.task_id \notin DOMAIN dbTasks
                     \/ dbTasks[args.task_id].status = "none"
                THEN "TaskNotFound"
                ELSE "ok"
     IN toolResponse' = toolAnswer("monitorAIBuilder", outcome)
  /\ UNCHANGED <<agentVars, deleg, dbTasks, dbWorkflows, queueVars, otherVars>>

\* agent_id: "none" is an absent agent_id (the status of every agent is asked)
StatusArgs == [agent_id : {"none", "devin", "ghost"}]

\* getAIBuilderStatus, part_002 lines 266-323
getAIBuilderStatus(args) ==
  /\ LET outcome ==
           IF args.agent_id # "none" /\ args.agent_id \notin DOMAIN agents
           THEN "AgentNotFound"
           ELSE "ok"
     IN toolResponse' = toolAnswer("getAIBuilderStatus", outcome)
  /\ UNCHANGED <<agentVars, deleg, dbTasks, dbWorkflows, queueVars, otherVars>>

UpgradeArgs == [project_id : BOOLEAN, upgrade_type : BOOLEAN]

\* scheduleAutonomousUpgrade, part_002 lines 325-377
scheduleAutonomousUpgrade(args, storeOk) ==
  /\ LET outcome ==
           IF ~args.project_id \/ ~args.upgrade_type THEN "ProjectAndTypeRequired"
           ELSE IF ~storeOk THEN "StoreError"
           ELSE "ok"
     IN /\ toolResponse' = toolAnswer("scheduleAutonomousUpgrade", outcome)
        /\ dbWorkflows' = IF outcome = "ok" THEN dbWorkflows + 1 ELSE dbWorkflows
  /\ UNCHANGED <<agentVars, deleg, dbTasks, queueVars, otherVars>>

\* triggers and actions: absent, an array, or a string (no join method)
WorkflowArgs ==
  [workflow_name : BOOLEAN, triggers : {"absent", "array", "string"},
   actions : {"absent", "array"}]

\* createAutonomousWorkflow, part_002 lines 379-419: the row is inserted before
\* the response text is built with args.triggers.join
createAutonomousWorkflow(args, storeOk) ==
  /\ LET missing == ~args.workflow_name \/ args.triggers = "absent"
                      \/ args.actions = "absent"
         outcome ==
           IF missing THEN "WorkflowFieldsRequired"
           ELSE IF ~storeOk THEN "StoreError"
           ELSE IF args.triggers = "string" THEN "TypeError"
           ELSE "ok"
     IN /\ toolResponse' = toolAnswer("createAutonomousWorkflow", outcome)
        /\ dbWorkflows' = IF ~missing /\ storeOk THEN dbWorkflows + 1 ELSE dbWorkflows
  /\ UNCHANGED <<agentVars, deleg, dbTasks, queueVars, otherVars>>

HealthArgs == [project_path : BOOLEAN]

\* analyzeProjectHealth, part_002 lines 461-512
analyzeProjectHealth(args) ==
  /\ toolResponse' = toolAnswer("analyzeProjectHealth",
                                IF args.project_path THEN "ok" ELSE "ProjectPathRequired")
  /\ UNCHANGED <<agentVars, deleg, dbTasks, dbWorkflows, queueVars, otherVars>>

\* the CallToolRequestSchema handler with a name it does not know (part_001,
\* lines 290-304)
callTool_unknown ==
  /\ toolResponse' = toolAnswer("unknown", "UnknownTool")
  /\ UNCHANGED <<agentVars, deleg, dbTasks, dbWorkflows, queueVars, otherVars>>

\* the store can insert a workflow row
workflowsLeft(args) ==
  (args.workflow_name /\ args.triggers # "absent" /\ args.actions # "absent")
    => dbWorkflows < MaxWorkflows

\* SpecTools: the tool operations called in any order, with one delegation
ToolDelegations == {1}

NextTools ==
  \/ \E sp \in DelegationAgentSpecs :
       registerAgent(sp) /\ UNCHANGED <<agentRet, delegVars, queueVars>>
  \/ \E d \in ToolDelegations, args \in DelegationArgs : delegate_selectAgent(d, args)
  \/ \E d \in ToolDelegations, storeOk \in BOOLEAN : delegate_createTask(d, storeOk)
  \/ \E d \in ToolDelegations : delegate_assign(d)
  \/ \E d \in ToolDelegations, storeOk \in BOOLEAN : delegate_markInProgress(d, storeOk)
  \/ \E d \in ToolDelegations, storeOk \in BOOLEAN : delegate_logAssigned(d, storeOk)
  \/ \E d \in ToolDelegations, execOk \in BOOLEAN : execute_run(d, execOk)
  \/ \E d \in ToolDelegations, storeOk \in BOOLEAN : execute_markCompleted(d, storeOk)
  \/ \E d \in ToolDelegations : execute_releaseOk(d)
  \/ \E d \in ToolDelegations, storeOk \in BOOLEAN : execute_logCompleted(d, storeOk)
  \/ \E d \in ToolDelegations, storeOk \in BOOLEAN : execute_markFailed(d, storeOk)
  \/ \E d \in ToolDelegations : execute_releaseFail(d)
  \/ \E d \in ToolDelegations, storeOk \in BOOLEAN : execute_logFailed(d, storeOk)
  \/ \E args \in MonitorArgs, storeOk \in BOOLEAN : monitorAIBuilder(args, storeOk)
  \/ \E args \in StatusArgs : getAIBuilderStatus(args)
  \/ \E args \in UpgradeArgs, storeOk \in BOOLEAN :
       /\ (args.project_id /\ args.upgrade_type) => dbWorkflows < MaxWorkflows
       /\ scheduleAutonomousUpgrade(args, storeOk)
  \/ \E args \in WorkflowArgs, storeOk \in BOOLEAN :
       workflowsLeft(args) /\ createAutonomousWorkflow(args, storeOk)
  \/ \E args \in HealthArgs : analyzeProjectHealth(args)
  \/ callTool_unknown

SpecTools == Init /\ [][NextTools]_vars

(***************************************************************************)
(* TaskQueue                                                               *)
(***************************************************************************)
Priorities == {"low", "medium", "high", "urgent"}

\* processQueue, line 51
priorityOrder == [urgent |-> 4, high |-> 3, medium |-> 2, low |-> 1]

\* Map.set / Map.delete / Map.has
mapPut(mp, k, v) == [x \in (DOMAIN mp) \cup {k} |-> IF x = k THEN v ELSE mp[x]]
mapDelete(mp, k) == [x \in (DOMAIN mp) \ {k} |-> mp[x]]

\* a sort by ascending rank: priorityOrder[a.priority] - priorityOrder[b.priority]
sortQueue_ascending(q, ts) ==
  LET objs == Range(q)
      after == [pr \in objs \X objs |->
                  priorityOrder[ts[pr[1]].priority]
                    - priorityOrder[ts[pr[2]].priority] > 0]
  IN StableSort(q, after)

\* a sort that is not stable: tasks of equal rank change places
sortQueue_unstable(q, ts) ==
  LET objs == Range(q)
      after == [pr \in objs \X objs |->
                  priorityOrder[ts[pr[2]].priority]
                    - priorityOrder[ts[pr[1]].priority] >= 0]
  IN StableSort(q, after)

\* this.queue.sort((a, b) => priorityOrder[b.priority] - priorityOrder[a.priority])
sortQueue(q, ts) ==
  LET objs == Range(q)
      after == [pr \in objs \X objs |->
                  priorityOrder[ts[pr[2]].priority]
                    - priorityOrder[ts[pr[1]].priority] > 0]
  IN StableSort(q, after)

\* this.queue.findIndex(task => task.id === taskId); 0 stands for -1
RECURSIVE findIndexFrom(_, _, _, _)
findIndexFrom(q, ts, taskId, i) ==
  IF i > Len(q) THEN 0
  ELSE IF ts[q[i]].id = taskId THEN i
       ELSE findIndexFrom(q, ts, taskId, i + 1)

findIndex(q, ts, taskId) == findIndexFrom(q, ts, taskId, 1)

\* this.queue.splice(i, 1)
splice(q, i) == SubSeq(q, 1, i - 1) \o SubSeq(q, i + 1, Len(q))

\* the argument of addTask: id 0, priority "none" and status "none" stand for
\* fields that taskData does not have
taskDataOf(id, priority, status) == [id |-> id, priority |-> priority, status |-> status]

\* addTask: { id: uuidv4(), ...taskData, status: 'queued', createdAt, priority }.
\* uuidv4() gives an id no other call of it has given: the object's number here.
\* The spread comes after id, so an id of taskData replaces the uuid, and before
\* status, so a status of taskData is replaced; priority is taskData.priority || 'medium'
addTask(taskData) ==
  /\ LET o == Len(tasks) + 1
         task == [id |-> IF taskData.id # 0 THEN taskData.id ELSE o,
                  status |-> "queued",
                  priority |-> IF taskData.priority = "none" THEN "medium"
                                                            ELSE taskData.priority,
                  retryCount |-> 0, error |-> "undefined"]
     IN /\ tasks' = Append(tasks, task)
        /\ queue' = Append(queue, o)
        /\ executing' = Append(executing, 0)
        /\ rejected' = Append(rejected, 0)
        /\ queueRet' = "ok"
  /\ UNCHANGED <<processing, completed, failed, isRunning, loops,
                 agentVars, delegVars>>

\* a test that dispatches only while another task waits behind the first
canDispatch_needsBacklog(q, proc) == Len(q) > 1 /\ Cardinality(proc) < MaxConcurrency

\* the test of line 56
canDispatch(q, proc) == Len(q) > 0 /\ Cardinality(proc) < MaxConcurrency

\* One pass of the body of processQueue's while loop, lines 49-66, up to the
\* await of the timer: the sort, then at most one task is shifted from the queue
\* and processTask starts on it, running to its await of executeTask (lines 79-86)
iterate ==
  LET sorted == sortQueue(queue, tasks) IN
    IF canDispatch(sorted, processing)
    THEN LET o == Head(sorted) IN
           /\ queue' = Tail(sorted)
           /\ processing' = processing \cup {tasks[o].id}
           /\ tasks' = [tasks EXCEPT ![o].status = "processing"]
           /\ executing' = [executing EXCEPT ![o] = @ + 1]
    ELSE /\ queue' = sorted
         /\ UNCHANGED <<processing, tasks, executing,
                 agentVars, delegVars>>

\* start(): isRunning = true, then processQueue() runs its first pass at once
start ==
  /\ isRunning' = TRUE
  /\ loops' = loops + 1
  /\ iterate
  /\ queueRet' = "ok"
  /\ UNCHANGED <<completed, failed, rejected,
                 agentVars, delegVars>>

stop ==
  /\ isRunning' = FALSE
  /\ queueRet' = "ok"
  /\ UNCHANGED <<tasks, queue, processing, completed, failed, loops, executing, rejected,
                 agentVars, delegVars>>

\* the .catch callback of a rejected processTask is a promise job: it runs
\* before the next timer, so no setTimeout continuation comes in between
noPendingRejection == \A o \in DOMAIN tasks : rejected[o] = 0

\* a loop whose timer goes on to the next pass without the test of isRunning
processQueue_pass_ignoresStop ==
  /\ loops > 0
  /\ noPendingRejection
  /\ iterate
  /\ UNCHANGED <<completed, failed, isRunning, loops, rejected, queueRet,
                 agentVars, delegVars>>

\* a loop's timer fires while isRunning: the next pass
processQueue_pass ==
  /\ loops > 0
  /\ noPendingRejection
  /\ isRunning
  /\ iterate
  /\ UNCHANGED <<completed, failed, isRunning, loops, rejected, queueRet,
                 agentVars, delegVars>>

\* a loop's timer fires after stop(): the while condition ends the loop
processQueue_exit ==
  /\ loops > 0
  /\ noPendingRejection
  /\ ~isRunning
  /\ loops' = loops - 1
  /\ UNCHANGED <<tasks, queue, processing, completed, failed, isRunning, executing,
                 rejected, queueRet,
                 agentVars, delegVars>>

\* processTask, lines 88-94: executeTask returned
processTask_completed(o) ==
  /\ executing[o] > 0
  /\ tasks' = [tasks EXCEPT ![o].status = "completed"]
  /\ completed' = mapPut(completed, tasks[o].id, o)
  /\ processing' = processing \ {tasks[o].id}
  /\ executing' = [executing EXCEPT ![o] = @ - 1]
  /\ UNCHANGED <<queue, failed, isRunning, loops, rejected, queueRet,
                 agentVars, delegVars>>

\* processTask, lines 95-104: executeTask threw; the catch records the failure and
\* throws again, which rejects the promise processQueue put its .catch on
processTask_failed(o) ==
  /\ executing[o] > 0
  /\ tasks' = [tasks EXCEPT ![o].status = "failed", ![o].error = "ExecutionError"]
  /\ failed' = mapPut(failed, tasks[o].id, o)
  /\ processing' = processing \ {tasks[o].id}
  /\ executing' = [executing EXCEPT ![o] = @ - 1]
  /\ rejected' = [rejected EXCEPT ![o] = @ + 1]
  /\ UNCHANGED <<queue, completed, isRunning, loops, queueRet,
                 agentVars, delegVars>>

\* a .catch callback that also ends the loop that dispatched the task
processQueue_catch_fatal(o) ==
  /\ rejected[o] > 0
  /\ failed' = mapPut(failed, tasks[o].id, o)
  /\ processing' = processing \ {tasks[o].id}
  /\ rejected' = [rejected EXCEPT ![o] = @ - 1]
  /\ loops' = Max(loops - 1, 0)
  /\ UNCHANGED <<tasks, queue, completed, isRunning, executing, queueRet,
                 agentVars, delegVars>>

\* processQueue, lines 61-65: the .catch callback of a rejected processTask
processQueue_catch(o) ==
  /\ rejected[o] > 0
  /\ failed' = mapPut(failed, tasks[o].id, o)
  /\ processing' = processing \ {tasks[o].id}
  /\ rejected' = [rejected EXCEPT ![o] = @ - 1]
  /\ UNCHANGED <<tasks, queue, completed, isRunning, loops, executing, queueRet,
                 agentVars, delegVars>>

\* cancelTask: what it answers
cancelOutcome(q, ts, proc, taskId) ==
  IF findIndex(q, ts, taskId) # 0 THEN "ok"
  ELSE IF taskId \in proc THEN "CannotCancelProcessing"
       ELSE "NotFound"

cancelTask(taskId) ==
  /\ LET i == findIndex(queue, tasks, taskId) IN
       IF i # 0
       THEN /\ queue' = splice(queue, i)
            /\ tasks' = [tasks EXCEPT ![queue[i]].status = "cancelled"]
       ELSE UNCHANGED <<queue, tasks>>
  /\ queueRet' = cancelOutcome(queue, tasks, processing, taskId)
  /\ UNCHANGED <<processing, completed, failed, isRunning, loops, executing, rejected,
                 agentVars, delegVars>>

\* retryTask: what it answers
retryOutcome(fl, taskId) == IF taskId \in DOMAIN fl THEN "ok" ELSE "FailedTaskNotFound"

\* retryTask: the task object after lines 270-273 (null for error; 0 is an absent
\* retryCount, as in task.retryCount || 0)
retriedTask_keepsError(task) ==
  [task EXCEPT !.status = "queued", !.retryCount = @ + 1]

retriedTask(task) ==
  [task EXCEPT !.status = "queued", !.retryCount = @ + 1, !.error = "null"]

retryTask(taskId) ==
  /\ IF taskId \in DOMAIN failed
     THEN LET o == failed[taskId] IN
            /\ failed' = mapDelete(failed, taskId)
            /\ tasks' = [tasks EXCEPT ![o] = retriedTask(@)]
            /\ queue' = Append(queue, o)
     ELSE UNCHANGED <<failed, tasks, queue>>
  /\ queueRet' = retryOutcome(failed, taskId)
  /\ UNCHANGED <<processing, completed, isRunning, loops, executing, rejected,
                 agentVars, delegVars>>

TaskIds == 1..MaxTasks

\* the bound on retryTask: a call that would succeed needs retries left
retriesLeft(taskId, bound) ==
  taskId \in DOMAIN failed => tasks[failed[taskId]].retryCount < bound

\* the bound on the executor's failures: at most `bound` tasks ever fail
failuresLeft(o, bound) ==
  Cardinality({u \in DOMAIN tasks : tasks[u].error # "undefined"} \cup {o}) <= bound

NextQueue ==
  \/ \E p \in Priorities \cup {"none"} :
       Len(tasks) < MaxTasks /\ addTask(taskDataOf(0, p, "none"))
  \/ loops < MaxLoops /\ start
  \/ stop
  \/ processQueue_pass
  \/ processQueue_exit
  \/ \E o \in DOMAIN tasks : processTask_completed(o)
  \/ \E o \in DOMAIN tasks : failuresLeft(o, MaxFailing) /\ processTask_failed(o)
  \/ \E o \in DOMAIN tasks : processQueue_catch(o)
  \/ \E id \in TaskIds : cancelTask(id)
  \/ \E id \in TaskIds : retriesLeft(id, MaxRetries) /\ retryTask(id)

SpecQueue == Init /\ [][NextQueue]_vars

(***************************************************************************)
(* SpecRace: the TaskQueue filled beyond the concurrency cap.  A scenario  *)
(* of SpecQueue's behaviours with more tasks and fewer choices: every task *)
(* has the default priority, the queue is started once and not stopped,    *)
(* one task fails and is retried, only a retried task is cancelled, and     *)
(* calls that would be refused are left out                                *)
(***************************************************************************)
RaceTasks == MaxConcurrency + 1

RaceRetries == MaxRetries + 1

NextRace ==
  \/ Len(tasks) < RaceTasks /\ addTask(taskDataOf(0, "none", "none"))
  \/ loops < MaxLoops /\ start
  \/ processQueue_pass
  \/ \E o \in DOMAIN tasks :
       /\ Cardinality(DOMAIN completed \cup {tasks[o].id}) <= RaceCompletions
       /\ processTask_completed(o)
  \/ \E o \in DOMAIN tasks : failuresLeft(o, MaxFailing) /\ processTask_failed(o)
  \/ \E o \in DOMAIN tasks : processQueue_catch(o)
  \/ \E id \in DOMAIN failed : retriesLeft(id, RaceRetries) /\ retryTask(id)
  \/ \E id \in 1..RaceTasks :
       /\ findIndex(queue, tasks, id) # 0
       /\ tasks[queue[findIndex(queue, tasks, id)]].retryCount > 0
       /\ \A o \in DOMAIN tasks : tasks[o].status # "cancelled"
       /\ cancelTask(id)

SpecRace == Init /\ [][NextRace]_vars

(***************************************************************************)
(* SpecIds: addTask called with taskData that may carry fields of a task   *)
(* object, as when a task the queue has returned is handed to addTask      *)
(* again: an id some task of the queue has, and a status.                  *)
(***************************************************************************)
KnownIds == {tasks[o].id : o \in DOMAIN tasks}

IdTaskData ==
  {taskDataOf(id, priority, status) :
     id \in {0} \cup KnownIds, priority \in {"none", "high"},
     status \in {"none", "completed"}}

NextIds ==
  \/ \E taskData \in IdTaskData : Len(tasks) < MaxTasks /\ addTask(taskData)
  \/ loops < MaxLoops /\ start
  \/ processQueue_pass
  \/ \E o \in DOMAIN tasks : processTask_completed(o)
  \/ \E id \in KnownIds : cancelTask(id)

SpecIds == Init /\ [][NextIds]_vars

(***************************************************************************)
(* SpecLoops: start() and stop() called in any order.  start() has no test *)
(* of isRunning and no record of the loop it began, so every call begins a *)
(* processQueue loop; a loop ends only at its own timer, when it finds     *)
(* isRunning false.  loops counts the loops that have begun and not ended. *)
(***************************************************************************)
NextLoops ==
  \/ Len(tasks) < MaxTasks /\ addTask(taskDataOf(0, "none", "none"))
  \/ loops < MaxStarts /\ start
  \/ stop
  \/ processQueue_pass
  \/ processQueue_exit
  \/ \E o \in DOMAIN tasks : processTask_completed(o)

SpecLoops == Init /\ [][NextLoops]_vars

(***************************************************************************)
(* SpecLive: the TaskQueue once started and not stopped, with fairness.    *)
(* A loop that waits is woken by its timer (setTimeout of line 69), the    *)
(* Task Executor ends every execution it has begun, and a .catch callback  *)
(* is a promise job that the event loop runs.  addTask, cancelTask and     *)
(* retryTask are calls of a client and happen or not; tasks, failures and  *)
(* retries are finitely many.                                              *)
(***************************************************************************)
NextLive ==
  \/ \E p \in {"low", "urgent"} :
       Len(tasks) < MaxTasks /\ addTask(taskDataOf(0, p, "none"))
  \/ loops < MaxLoops /\ start
  \/ processQueue_pass
  \/ \E o \in DOMAIN tasks : processTask_completed(o)
  \/ \E o \in DOMAIN tasks : failuresLeft(o, MaxFailing) /\ processTask_failed(o)
  \/ \E o \in DOMAIN tasks : processQueue_catch(o)
  \/ \E id \in TaskIds : cancelTask(id)
  \/ \E id \in TaskIds : retriesLeft(id, MaxRetries) /\ retryTask(id)

LiveFairness ==
  /\ WF_vars(processQueue_pass)
  /\ WF_vars(\E o \in DOMAIN tasks :
               \/ processTask_completed(o)
               \/ failuresLeft(o, MaxFailing) /\ processTask_failed(o))
  /\ WF_vars(\E o \in DOMAIN tasks : processQueue_catch(o))

SpecLive == Init /\ [][NextLive]_vars /\ LiveFairness

(***************************************************************************)
(* DatabaseManager (src/src/database/database.js): the statements of       *)
(* registerAgent, createTask, updateTaskStatus and logTaskExecution run    *)
(* against the tables of createTables, with foreign keys enforced          *)
(* (initialize, line 33).  A statement either runs or throws the error of  *)
(* the database engine; store.ret is what the last call answered.          *)
(* SpecStore calls these methods with the ids the delegation path passes   *)
(* (uuids of the registry and of delegateToAIBuilder) and with the row ids *)
(* the store itself has handed out.                                        *)
(***************************************************************************)
\* createTables, lines 60-78: the columns of the tasks table
tasksColumns ==
  {"id", "task_id", "agent_id", "task_type", "task_description", "project_context",
   "status", "priority", "progress", "result", "error_message", "created_at",
   "started_at", "completed_at"}

\* updateTaskStatus, lines 239-260: the columns its UPDATE sets; progress -1
\* stands for null
updateColumns(status, progress, hasResult, hasError) ==
  {"status", "updated_at"}
    \cup (IF progress # -1 THEN {"progress"} ELSE {})
    \cup (IF hasResult THEN {"result"} ELSE {})
    \cup (IF hasError THEN {"error_message"} ELSE {})
    \cup (IF status = "in_progress" THEN {"started_at"}
          ELSE IF status \in {"completed", "failed"} THEN {"completed_at"} ELSE {})

\* FOREIGN KEY (...) REFERENCES table (id): the value is the id of a row
references(rows, id) == \E i \in DOMAIN rows : rows[i].id = id

\* what a call answers
answer(op, task_id, agent_id, status, columns, outcome) ==
  [op |-> op, task_id |-> task_id, agent_id |-> agent_id, status |-> status,
   columns |-> columns, outcome |-> outcome]

\* DatabaseManager.registerAgent: INSERT OR REPLACE INTO ai_agents.  A row of the
\* same name (UNIQUE) is deleted first, which the foreign keys of tasks and
\* task_execution_logs forbid while a row refers to it
store_registerAgent(name) ==
  /\ LET old == {store.ai_agents[i].id :
                   i \in {j \in DOMAIN store.ai_agents : store.ai_agents[j].name = name}}
         referred == \E id \in old :
                       \/ \E i \in DOMAIN store.tasks : store.tasks[i].agent_id = id
                       \/ \E i \in DOMAIN store.logs : store.logs[i].agent_id = id
         newId == rowid(store.agentSeq + 1)
     IN store' =
          IF referred
          THEN [store EXCEPT !.ret = answer("registerAgent", NoId, NoId, "none", {},
                                            "ForeignKeyFailed")]
          ELSE [store EXCEPT
                  !.ai_agents = Append(SelectSeq(@, LAMBDA r : r.name # name),
                                       [id |-> newId, name |-> name]),
                  !.agentSeq = @ + 1,
                  !.ret = answer("registerAgent", NoId, newId, "none", {}, "ok")]
  /\ UNCHANGED <<agentVars, deleg, dbTasks, toolVars, queueVars, classifyVars, job>>

\* DatabaseManager.createTask: INSERT INTO tasks (task_id, agent_id, ...); task_id
\* is UNIQUE and agent_id REFERENCES ai_agents (id); status is the default
store_createTask(taskData) ==
  /\ LET outcome ==
           IF \E i \in DOMAIN store.tasks : store.tasks[i].task_id = taskData.task_id
           THEN "UniqueFailed"
           ELSE IF ~references(store.ai_agents, taskData.agent_id)
                THEN "ForeignKeyFailed"
                ELSE "ok"
         ret == answer("createTask", taskData.task_id, taskData.agent_id, "none", {},
                       outcome)
     IN store' =
          IF outcome = "ok"
          THEN [store EXCEPT
                  !.tasks = Append(@, [id |-> rowid(store.taskSeq + 1),
                                       task_id |-> taskData.task_id,
                                       agent_id |-> taskData.agent_id,
                                       status |-> "pending", progress |-> 0,
                                       result |-> FALSE, error_message |-> FALSE]),
                  !.taskSeq = @ + 1,
                  !.ret = ret]
          ELSE [store EXCEPT !.ret = ret]
  /\ UNCHANGED <<agentVars, deleg, dbTasks, toolVars, queueVars, classifyVars, job>>

\* DatabaseManager.updateTaskStatus: db.prepare throws when the statement names a
\* column the table does not have; otherwise the rows WHERE task_id = ? are set
store_updateTaskStatus(taskId, status, progress, hasResult, hasError) ==
  /\ LET columns == updateColumns(status, progress, hasResult, hasError)
         updated(row) ==
           IF row.task_id # taskId THEN row
           ELSE [row EXCEPT !.status = status,
                            !.progress = IF progress # -1 THEN progress ELSE @,
                            !.result = IF hasResult THEN TRUE ELSE @,
                            !.error_message = IF hasError THEN TRUE ELSE @]
     IN store' =
          IF columns \subseteq tasksColumns
          THEN [store EXCEPT
                  !.tasks = [i \in DOMAIN @ |-> updated(@[i])],
                  !.ret = answer("updateTaskStatus", taskId, NoId, status, columns, "ok")]
          ELSE [store EXCEPT
                  !.ret = answer("updateTaskStatus", taskId, NoId, status, columns,
                                 "NoSuchColumn")]
  /\ UNCHANGED <<agentVars, deleg, dbTasks, toolVars, queueVars, classifyVars, job>>

\* DatabaseManager.logTaskExecution: INSERT INTO task_execution_logs (task_id,
\* agent_id, ...); task_id REFERENCES tasks (id), agent_id REFERENCES ai_agents (id)
store_logTaskExecution(taskId, agentId, action) ==
  /\ LET outcome ==
           IF references(store.tasks, taskId) /\ references(store.ai_agents, agentId)
           THEN "ok" ELSE "ForeignKeyFailed"
         ret == answer("logTaskExecution", taskId, agentId, action, {}, outcome)
     IN store' =
          IF outcome = "ok"
          THEN [store EXCEPT
                  !.logs = Append(@, [task_id |-> taskId, agent_id |-> agentId]),
                  !.ret = ret]
          ELSE [store EXCEPT !.ret = ret]
  /\ UNCHANGED <<agentVars, deleg, dbTasks, toolVars, queueVars, classifyVars, job>>

\* the ids of the in-memory agents (registerAgent of the AgentManager, line 125)
\* and the row ids of ai_agents
StoreAgentIds ==
  {uuid(k) : k \in 1..MaxStoreRows}
    \cup {store.ai_agents[i].id : i \in DOMAIN store.ai_agents}

\* the taskIds of delegateToAIBuilder (line 25), and the row ids of tasks
StoreTaskIds == {uuid(k) : k \in 1..MaxStoreRows}

StoreTaskRefs == StoreTaskIds \cup {store.tasks[i].id : i \in DOMAIN store.tasks}

\* the statuses delegateToAIBuilder and executeTaskWithAgent write
LifecycleStatuses == {"in_progress", "completed", "failed"}

NextStore ==
  \/ \E name \in {"devin", "claude"} :
       store.agentSeq < MaxStoreRows /\ store_registerAgent(name)
  \/ \E task_id \in StoreTaskIds, agent_id \in StoreAgentIds :
       /\ Len(store.tasks) < MaxStoreRows
       /\ store_createTask([task_id |-> task_id, agent_id |-> agent_id])
  \/ \E taskId \in StoreTaskIds, status \in LifecycleStatuses, progress \in {-1, 0, 100},
        hasResult \in BOOLEAN, hasError \in BOOLEAN :
       store_updateTaskStatus(taskId, status, progress, hasResult, hasError)
  \/ \E taskId \in StoreTaskRefs, agentId \in StoreAgentIds,
        action \in {"task_assigned", "task_completed", "task_failed"} :
       /\ Len(store.logs) < MaxStoreRows
       /\ store_logTaskExecution(taskId, agentId, action)

SpecStore == Init /\ [][NextStore]_vars

(***************************************************************************)
(* KnowledgeExtractionJob.run (src/unnamed/part_000).  The tools are named *)
(* by their place in toolsToExtract.  The extractor is a collaborator: a   *)
(* call of extractKnowledgeFromTool either resolves with a result or       *)
(* rejects with an Error.                                                  *)
(***************************************************************************)
\* the job after its constructor and the first lines of run(); env is
\* MAX_CONCURRENT_EXTRACTIONS, 0 standing for an absent or non-numeric value
\* (parseInt gives NaN, and NaN || 3 and 0 || 3 are both 3)
newJob(n, env) ==
  [pc |-> "loop", tools |-> n,
   maxConcurrent |-> IF env # 0 THEN env ELSE DefaultMaxConcurrentExtractions,
   i |-> 0, batch |-> <<>>, settled |-> EmptyMap, results |-> <<>>,
   outcome |-> [t \in 1..n |-> "none"], exitCode |-> -1]

\* slice(i, i + maxConcurrent) widened by one entry
batchOf_wide(n, i, maxConcurrent) ==
  [k \in 1..(IF i + maxConcurrent + 1 < n THEN maxConcurrent + 1 ELSE n - i) |-> i + k]

\* line 59: this.toolsToExtract.slice(i, i + maxConcurrent), i counting from 0
batchOf(n, i, maxConcurrent) ==
  [k \in 1..(IF i + maxConcurrent < n THEN maxConcurrent ELSE n - i) |-> i + k]

InitJob ==
  /\ InitComponents
  /\ description = <<>>
  /\ derived = NoDerived
  /\ job \in {newJob(n, env) : n \in 1..MaxJobTools, env \in 0..MaxJobEnv}
  /\ store = NoStore

\* lines 58-80: the loop test, the slice and batch.map: every extraction of the
\* batch is called before run() reaches its await
run_startBatch ==
  /\ job.pc = "loop"
  /\ job.i < job.tools
  /\ job' = [job EXCEPT !.pc = "all",
                        !.batch = batchOf(job.tools, job.i, job.maxConcurrent),
                        !.settled = EmptyMap]
  /\ UNCHANGED <<agentVars, deleg, dbTasks, toolVars, queueVars, classifyVars, store>>

\* an extraction whose rejection is not caught where it is awaited: Promise.all
\* rejects and the catch of run() ends the process
extract_settle_unisolated(t, resolved) ==
  /\ job.pc = "all"
  /\ t \in Range(job.batch) /\ t \notin DOMAIN job.settled
  /\ job' = IF resolved
            THEN [job EXCEPT !.settled = mapPut(@, t, "completed"),
                             !.outcome[t] = "resolved"]
            ELSE [job EXCEPT !.outcome[t] = "rejected", !.pc = "exited",
                             !.exitCode = 1]
  /\ UNCHANGED <<agentVars, deleg, dbTasks, toolVars, queueVars, classifyVars, store>>

\* lines 62-79: the async callback of one tool after its await: the result of
\* the extractor, or the failed result built in the catch
extract_settle(t, resolved) ==
  /\ job.pc = "all"
  /\ t \in Range(job.batch) /\ t \notin DOMAIN job.settled
  /\ job' = [job EXCEPT
               !.settled = mapPut(@, t, IF resolved THEN "completed" ELSE "failed"),
               !.outcome[t] = IF resolved THEN "resolved" ELSE "rejected"]
  /\ UNCHANGED <<agentVars, deleg, dbTasks, toolVars, queueVars, classifyVars, store>>

\* lines 82-89: Promise.all has every result, in the order of the batch; the
\* timer of 30 seconds is started when tools are left
run_batchDone ==
  /\ job.pc = "all"
  /\ \A t \in Range(job.batch) : t \in DOMAIN job.settled
  /\ LET batchResults ==
           [k \in 1..Len(job.batch) |->
              [toolName |-> job.batch[k], status |-> job.settled[job.batch[k]]]]
         wait == job.i + job.maxConcurrent < job.tools
     IN job' = [job EXCEPT !.results = @ \o batchResults,
                           !.pc = IF wait THEN "delay" ELSE "loop",
                           !.i = IF wait THEN @ ELSE @ + job.maxConcurrent]
  /\ UNCHANGED <<agentVars, deleg, dbTasks, toolVars, queueVars, classifyVars, store>>

\* line 88 and the increment of line 58: the timer fires
run_delayOver ==
  /\ job.pc = "delay"
  /\ job' = [job EXCEPT !.pc = "loop", !.i = @ + job.maxConcurrent]
  /\ UNCHANGED <<agentVars, deleg, dbTasks, toolVars, queueVars, classifyVars, store>>

\* lines 93-111: the loop is left, the results are counted, process.exit
run_finish ==
  /\ job.pc = "loop"
  /\ job.i >= job.tools
  /\ LET failedCount ==
           Cardinality({k \in DOMAIN job.results : job.results[k].status = "failed"})
     IN job' = [job EXCEPT !.pc = "exited",
                           !.exitCode = IF failedCount = 0 THEN 0 ELSE 1]
  /\ UNCHANGED <<agentVars, deleg, dbTasks, toolVars, queueVars, classifyVars, store>>

NextJob ==
  \/ run_startBatch
  \/ \E t \in 1..job.tools, resolved \in BOOLEAN : extract_settle(t, resolved)
  \/ run_batchDone
  \/ run_delayOver
  \/ run_finish

SpecJob == InitJob /\ [][NextJob]_vars

(***************************************************************************)
(* C1  For every agent registered with a positive capacity and every       *)
(* interleaving of assignTaskToAgent and releaseTaskFromAgent calls,       *)
(* duplicate releases included, 0 <= currentTasks <= maxConcurrentTasks.   *)
(***************************************************************************)
C1_CapacityInvariant ==
  \A n \in DOMAIN agents :
    /\ 0 <= agents[n].currentTasks
    /\ agents[n].currentTasks <= agents[n].maxConcurrentTasks

\* an agent is full and a further reservation was just refused, while another
\* agent was released more often than it was reserved and stays at 0
C1_Witness ==
  /\ agentRet = AgentRet("assignTaskToAgent", "devin", "AtCapacity")
  /\ agents["devin"].currentTasks = agents["devin"].maxConcurrentTasks
  /\ "claude" \in DOMAIN agents
  /\ agents["claude"].currentTasks = 0
  /\ agents["claude"].performance.totalTasks = 2

(***************************************************************************)
(* C4  For every agent, successRate = completedTasks / totalTasks when     *)
(* totalTasks > 0 and successRate = 0 when totalTasks = 0, and             *)
(* totalTasks = completedTasks + failedTasks.                              *)
(***************************************************************************)
C4_SuccessRate ==
  \A n \in DOMAIN agents :
    LET p == agents[n].performance IN
      /\ p.totalTasks = p.completedTasks + p.failedTasks
      /\ p.successRate.den # 0
      /\ p.totalTasks > 0 =>
           FracEq(p.successRate, Fraction(p.completedTasks, p.totalTasks))
      /\ p.totalTasks = 0 => p.successRate.num = 0

\* an agent that has both completed and failed tasks: a rate strictly inside (0, 1)
C4_Witness ==
  \E n \in DOMAIN agents :
    /\ agents[n].performance.completedTasks = 1
    /\ agents[n].performance.failedTasks = 1
    /\ agentRet = AgentRet("releaseTaskFromAgent", n, "ok")


(***************************************************************************)
(* C2  No reservation leaks: every successful assignTaskToAgent made in a  *)
(* delegation is followed by a releaseTaskFromAgent before the delegation  *)
(* returns, whatever the executor and the store do; hence with no          *)
(* delegation in flight every agent's currentTasks is 0.                   *)
(***************************************************************************)
InFlight(d) == deleg[d].pc \notin {"idle", "done"}

C2_NoReservationLeak ==
  /\ \A d \in Delegations :
       deleg[d].pc = "done" /\ deleg[d].reserved =>
         deleg[d].relOk + deleg[d].relFail >= 1
  /\ (\A d \in Delegations : ~InFlight(d)) =>
       \A n \in DOMAIN agents : agents[n].currentTasks = 0

(***************************************************************************)
(* C3  A delegation that reserved an agent releases it exactly once: the   *)
(* agent's totalTasks grows by 1 for it and exactly one of completedTasks  *)
(* and failedTasks grows by 1, never both and never twice, also when a     *)
(* store write or log call raises after the task was recorded completed.   *)
(* Stated as the upper half of "exactly once" (the lower half is C2): no   *)
(* delegation releases twice, and an agent never has more tasks counted    *)
(* than delegations have reserved it.                                      *)
(***************************************************************************)
ReservedOn(n) == {d \in Delegations : deleg[d].reserved /\ deleg[d].agent = n}

C3_ReleasedOnce ==
  /\ \A d \in Delegations : deleg[d].relOk + deleg[d].relFail <= 1
  /\ \A n \in DOMAIN agents :
       agents[n].performance.totalTasks <= Cardinality(ReservedOn(n))


(***************************************************************************)
(* C5  In every reachable state of the TaskQueue the number of tasks being *)
(* executed concurrently (dispatched and not yet completed or failed) is   *)
(* at most the concurrency cap 10.                                         *)
(***************************************************************************)
ExecutingTasks == {o \in DOMAIN tasks : executing[o] > 0}

C5_ConcurrencyCap == Cardinality(ExecutingTasks) <= MaxConcurrency

(***************************************************************************)
(* C6  Whenever the dispatch loop dequeues a task, that task's priority    *)
(* rank (urgent 4 > high 3 > medium 2 > low 1) is greater than or equal to *)
(* the rank of every task still in the queue at that moment; in particular *)
(* an urgent task enqueued after a medium task that is still queued is     *)
(* dispatched before it.                                                   *)
(***************************************************************************)
rank(ts, o) == priorityOrder[ts[o].priority]

C6_DispatchHighestRank ==
  [][\A o \in DOMAIN tasks :
       executing'[o] > executing[o]
         => \A i \in DOMAIN queue' : rank(tasks, o) >= rank(tasks', queue'[i])]_vars

\* task 1 (medium) is still queued and was never dispatched while task 2 (urgent),
\* enqueued after it, is being executed
C6_Witness ==
  /\ Len(tasks) >= 2
  /\ tasks[1].priority = "medium" /\ tasks[1].status = "queued" /\ tasks[1].retryCount = 0
  /\ ArrIncludes(queue, 1)
  /\ tasks[2].priority = "urgent" /\ executing[2] > 0

(***************************************************************************)
(* C7  Among queued tasks of equal priority, dispatch order equals the     *)
(* order in which they entered the queue (addTask or retryTask):           *)
(* reordering by priority never swaps two tasks of the same priority.      *)
(* Every step leaves the queued tasks of each priority in their order (one *)
(* may be appended, one may be removed), and a dispatched task is the      *)
(* earliest queued task of its priority.                                   *)
(***************************************************************************)
ofPriority(q, ts, p) == SelectSeq(q, LAMBDA o : ts[o].priority = p)

C7_FifoWithinPriority ==
  [][/\ \A p \in Priorities :
          LET before == ofPriority(queue, tasks, p)
              after == ofPriority(queue', tasks', p)
          IN \/ after = before
             \/ \E o \in DOMAIN tasks' : after = Append(before, o)
             \/ \E i \in DOMAIN before : after = splice(before, i)
     /\ \A o \in DOMAIN tasks :
          executing'[o] > executing[o]
            => LET before == ofPriority(queue, tasks, tasks[o].priority)
               IN /\ before # <<>>
                  /\ o = Head(before)
                  /\ ofPriority(queue', tasks', tasks[o].priority) = Tail(before)]_vars

\* tasks 1 and 2 have the same priority and task 3 a higher one: 3 and then 1 were
\* dispatched, 2 is still queued
C7_Witness ==
  /\ Len(tasks) = 3
  /\ tasks[1].priority = tasks[2].priority
  /\ rank(tasks, 3) > rank(tasks, 1)
  /\ executing[3] > 0 /\ executing[1] > 0
  /\ queue = <<2>> /\ tasks[2].retryCount = 0

(***************************************************************************)
(* C8  cancelTask on a task that is in the queue removes it from the queue *)
(* and sets its status to cancelled, and that task is never dispatched     *)
(* afterwards (it never reaches processing, completed or failed).          *)
(***************************************************************************)
C8_CancelledStaysOut ==
  [][/\ \A o \in DOMAIN tasks :
          (findIndex(queue, tasks, tasks[o].id) # 0 /\ cancelTask(tasks[o].id))
            => /\ tasks'[o].status = "cancelled"
               /\ findIndex(queue', tasks', tasks[o].id) = 0
     /\ \A o \in DOMAIN tasks :
          tasks[o].status = "cancelled"
            => tasks'[o].status = "cancelled" /\ executing'[o] <= executing[o]]_vars

(***************************************************************************)
(* C9  cancelTask on a task that has left the queue (processing, completed *)
(* or failed) is rejected with an error and leaves the queue, the          *)
(* in-flight set, the completed and failed collections and the task's      *)
(* status unchanged.                                                       *)
(***************************************************************************)
C9_CancelRejected ==
  [][\A o \in DOMAIN tasks :
       (tasks[o].status \in {"processing", "completed", "failed"}
          /\ cancelTask(tasks[o].id))
         => /\ queueRet' \in {"CannotCancelProcessing", "NotFound"}
            /\ UNCHANGED <<queue, processing, completed, failed, tasks>>]_vars

(***************************************************************************)
(* C10  retryTask on a task in the failed collection yields status queued, *)
(* retryCount exactly one greater than before (1 on the first retry),      *)
(* error cleared, priority unchanged, the task removed from the failed     *)
(* collection and appended at the tail of the queue.                       *)
(***************************************************************************)
C10_RetryRequeues ==
  [][\A id \in DOMAIN failed :
       retryTask(id)
         => LET o == failed[id] IN
              /\ tasks'[o].status = "queued"
              /\ tasks'[o].retryCount = tasks[o].retryCount + 1
              /\ tasks'[o].error = "null"
              /\ tasks'[o].priority = tasks[o].priority
              /\ id \notin DOMAIN failed'
              /\ queue' = Append(queue, o)
              /\ queueRet' = "ok"]_vars

\* a first retry: the task is queued again behind a task that was waiting
C10_Witness ==
  \E o \in DOMAIN tasks :
    /\ tasks[o].retryCount = 1 /\ tasks[o].status = "queued" /\ tasks[o].error = "null"
    /\ tasks[o].id \notin DOMAIN failed
    /\ Len(queue) >= 2 /\ queue[Len(queue)] = o
    /\ queueRet = "ok"

(***************************************************************************)
(* C11  retryTask on a task that is not in failed (queued, processing,     *)
(* completed, cancelled or unknown) is rejected with an error and changes  *)
(* nothing: the queue, the collections and the task's retryCount and       *)
(* status are unchanged.                                                   *)
(***************************************************************************)
C11_RetryRejected ==
  [][\A o \in DOMAIN tasks :
       (tasks[o].status # "failed" /\ retryTask(tasks[o].id))
         => /\ queueRet' = "FailedTaskNotFound"
            /\ UNCHANGED <<queue, processing, completed, failed, tasks>>]_vars

(***************************************************************************)
(* C12  Under any sequence and interleaving of TaskQueue operations        *)
(* (addTask, dispatch, executor success or failure, cancelTask,            *)
(* retryTask), a task's status changes only along queued -> in-flight ->   *)
(* completed | failed, queued -> cancelled, and failed -> queued;          *)
(* completed and cancelled are never left.                                 *)
(***************************************************************************)
C12_Lifecycle ==
  [][LET LifecycleEdges ==
           {<<"queued", "processing">>, <<"processing", "completed">>,
            <<"processing", "failed">>, <<"queued", "cancelled">>,
            <<"failed", "queued">>}
     IN \A o \in DOMAIN tasks :
          tasks'[o].status # tasks[o].status
            => <<tasks[o].status, tasks'[o].status>> \in LifecycleEdges]_vars

(***************************************************************************)
(* C13  End-to-end: delegating a task whose executor succeeds makes the    *)
(* recorded task status traverse queued -> assigned -> in_progress ->      *)
(* completed in that order, ending with progress = 100, and the agent      *)
(* chosen for "build the login page" is the one having capabilities        *)
(* code_generation and testing rather than one lacking them.               *)
(* The row of a task only moves along that path (or to failed), a          *)
(* delegation that answers with success leaves the row completed at 100,   *)
(* and in a registry of agents without history or load the chosen agent    *)
(* has both capabilities whenever an available agent has them.             *)
(***************************************************************************)
C13_EndToEnd ==
  [][LET RecordedPath ==
           {<<"none", "queued">>, <<"queued", "assigned">>,
            <<"assigned", "in_progress">>, <<"in_progress", "completed">>}
         hasBuildCapabilities(agent) ==
           /\ ArrIncludes(agent.capabilities, "code_generation")
           /\ ArrIncludes(agent.capabilities, "testing")
         freshRegistry ==
           \A n \in DOMAIN agents :
             agents[n].currentTasks = 0 /\ agents[n].performance.totalTasks = 0
     IN \A d \in Delegations :
          /\ dbTasks'[d].status # dbTasks[d].status
               => \/ <<dbTasks[d].status, dbTasks'[d].status>> \in RecordedPath
                  \/ dbTasks'[d].status = "failed"
          /\ (deleg[d].pc # "done" /\ deleg'[d].pc = "done" /\ deleg'[d].response = "ok")
               => dbTasks'[d].status = "completed" /\ dbTasks'[d].progress = 100
          /\ \A args \in DelegationArgs :
               ( /\ args.hasTask /\ args.task = TextBuildLogin
                 /\ args.preferred_agent = "auto"
                 /\ freshRegistry
                 /\ \E n \in Range(getAvailableAgents(agents, agentOrder)) :
                      hasBuildCapabilities(agents[n])
                 /\ delegate_selectAgent(d, args) )
               => /\ deleg'[d].agent \in DOMAIN agents
                  /\ hasBuildCapabilities(agents[deleg'[d].agent])]_vars

C15_OnlyAvailable ==
  [][agentRet'.op = "selectBestAgent"
       => /\ UNCHANGED <<agents, agentOrder>>
          /\ IF \E n \in DOMAIN agents :
                  /\ agents[n].status = "active"
                  /\ agents[n].currentTasks < agents[n].maxConcurrentTasks
             THEN /\ agentRet'.out = "ok"
                  /\ agentRet'.name \in DOMAIN agents
                  /\ agents[agentRet'.name].status = "active"
                  /\ agents[agentRet'.name].currentTasks
                       < agents[agentRet'.name].maxConcurrentTasks
             ELSE /\ agentRet'.out = "NoAvailableAgents"
                  /\ agentRet'.name = "none"]_vars

\* the call failed on a registry in which one agent is inactive and another is
\* active at its limit
C15_Witness ==
  /\ agentRet.op = "selectBestAgent" /\ agentRet.out = "NoAvailableAgents"
  /\ \E n \in DOMAIN agents : agents[n].status = "inactive"
  /\ \E n \in DOMAIN agents :
       /\ agents[n].status = "active"
       /\ agents[n].currentTasks = agents[n].maxConcurrentTasks

(***************************************************************************)
(* C16  When the reservation of the selected agent fails because another   *)
(* delegation took its last slot between selection and reservation,        *)
(* selection is retried once against the remaining available agents; if    *)
(* that also fails the task goes back to queued (at the head of its        *)
(* priority band) and is not treated as failed.                            *)
(* A delegation whose assignTaskToAgent finds the agent at its limit goes  *)
(* on with a reservation on an agent that is still available, or, when     *)
(* there is none, leaves the recorded task queued.                         *)
(***************************************************************************)
C16_ReservationRetried ==
  [][\A d \in Delegations :
       ( /\ deleg[d].pc = "assign"
         /\ assignOutcome(agents, deleg[d].agent) = "AtCapacity"
         /\ delegate_assign(d) )
       => LET remaining == Range(getAvailableAgents(agents, agentOrder)) IN
            IF remaining # {}
            THEN /\ deleg'[d].pc = "markInProgress"
                 /\ deleg'[d].reserved
                 /\ deleg'[d].agent \in remaining
            ELSE /\ dbTasks'[d].status = "queued"
                 /\ deleg'[d].response # "AtCapacity"]_vars

(***************************************************************************)
(* C17  When the Task Executor fails, the task transitions to failed with  *)
(* the error recorded, the agent's capacity is released with               *)
(* success = false, and the task is not executed again unless an explicit  *)
(* retry request re-enqueues it.                                           *)
(* Once a delegation whose executor failed has answered, its row is failed *)
(* with an error message and its reservation was released once, as a       *)
(* failure.                                                                *)
(***************************************************************************)
C17_ExecutorFailure ==
  \A d \in Delegations :
    (deleg[d].executor = "failed" /\ deleg[d].pc = "done")
      => /\ dbTasks[d].status = "failed" /\ dbTasks[d].error
         /\ deleg[d].relFail = 1 /\ deleg[d].relOk = 0

(***************************************************************************)
(* C18  The dispatch loop never terminates because of an error: after an   *)
(* exception in an iteration, or after a dispatched task fails, the loop   *)
(* is still running and still dispatches later queued tasks for as long as *)
(* the queue is started.                                                   *)
(* A loop ends only after stop(), and a started queue always has a loop.   *)
(***************************************************************************)
C18_LoopSurvives ==
  [][/\ loops' < loops => ~isRunning
     /\ isRunning' => loops' > 0]_vars

\* a task that failed and was retried is executing again: the loop that was
\* running when it failed has dispatched it, and the queue is still started
C18_Witness ==
  /\ isRunning /\ loops > 0
  /\ \E o \in DOMAIN tasks :
       /\ tasks[o].retryCount > 0 /\ tasks[o].status = "processing"
       /\ executing[o] > 0 /\ rejected[o] = 0

(***************************************************************************)
(* C19  Within one iteration of the dispatch loop tasks are dequeued       *)
(* repeatedly while the in-flight count is below the cap and the queue is  *)
(* non-empty, so that when an iteration ends either the queue is empty or  *)
(* the in-flight count equals the cap.                                     *)
(***************************************************************************)
C19_IterationDrains ==
  [][(processQueue_pass \/ start)
       => \/ queue' = <<>>
          \/ Cardinality(processing') >= MaxConcurrency]_vars

C21_InvalidArgsRejected ==
  [][\A d \in Delegations, args \in DelegationArgs :
       ( /\ \/ ~args.hasTask
            \/ /\ args.preferred_agent # "auto"
               /\ args.preferred_agent \notin DOMAIN agents
         /\ delegate_selectAgent(d, args) )
       => /\ deleg'[d].pc = "done"
          /\ deleg'[d].response =
               IF ~args.hasTask THEN "TaskRequired" ELSE "PreferredNotFound"
          /\ ~deleg'[d].reserved
          /\ dbTasks'[d] = NoRow
          /\ UNCHANGED <<agents, agentOrder, dbTasks>>]_vars

\* a call naming an unregistered agent has been answered while an earlier
\* delegation holds a slot of a registered agent: that slot is still held and the
\* rejected call has no row
C21_Witness ==
  /\ deleg[2].pc = "done" /\ deleg[2].response = "PreferredNotFound"
  /\ dbTasks[2] = NoRow
  /\ deleg[1].pc = "execute" /\ deleg[1].reserved
  /\ agents[deleg[1].agent].currentTasks = 1

(***************************************************************************)
(* C22  assignTaskToAgent on an unknown agent name fails with a not-found  *)
(* error and on an agent with currentTasks = maxConcurrentTasks fails with *)
(* a capacity error; in both cases no agent's currentTasks changes, and on *)
(* success exactly the named agent's currentTasks grows by 1.              *)
(***************************************************************************)
C22_ReserveOutcomes ==
  [][agentRet'.op = "assignTaskToAgent"
       => LET n == agentRet'.name IN
            IF n \notin DOMAIN agents
            THEN agentRet'.out = "NotFound" /\ UNCHANGED <<agents, agentOrder>>
            ELSE IF agents[n].currentTasks = agents[n].maxConcurrentTasks
            THEN agentRet'.out = "AtCapacity" /\ UNCHANGED <<agents, agentOrder>>
            ELSE /\ agentRet'.out = "ok"
                 /\ agents' = [agents EXCEPT ![n].currentTasks = @ + 1]
                 /\ UNCHANGED agentOrder]_vars

\* a reservation under an unregistered name was just refused while a registered
\* agent holds a reservation that succeeded and has room for another
C22_Witness ==
  /\ agentRet = AgentRet("assignTaskToAgent", "claude", "NotFound")
  /\ "claude" \notin DOMAIN agents
  /\ "devin" \in DOMAIN agents
  /\ agents["devin"].currentTasks = 1
  /\ agents["devin"].maxConcurrentTasks = 2

(***************************************************************************)
(* C23  The required capabilities derived from a task description are the  *)
(* set union of the capabilities of all rules whose trigger substring      *)
(* occurs in the lower-cased description (each capability counted once),   *)
(* or {code_generation, problem_solving} when no rule matches; the         *)
(* capability term of the score is |required \cap agent capabilities| /    *)
(* |required| over that set.                                               *)
(***************************************************************************)
C23_RequiredCapabilitySet ==
  derived.op = "extractRequiredCapabilities"
    => LET lower == toLowerCase(description)
           CapabilityRules ==
             {[triggers |-> {<<"b", "u", "i", "l", "d">>, <<"c", "o", "m", "p", "i", "l", "e">>},
             capabilities |-> {"code_generation", "testing"}],
            [triggers |-> {<<"t", "e", "s", "t">>},
             capabilities |-> {"testing"}],
            [triggers |-> {<<"d", "e", "p", "l", "o", "y">>},
             capabilities |-> {"deployment"}],
            [triggers |-> {<<"d", "e", "b", "u", "g">>, <<"f", "i", "x">>},
             capabilities |-> {"debugging"}],
            [triggers |-> {<<"r", "e", "f", "a", "c", "t", "o", "r">>, <<"o", "p", "t", "i", "m", "i", "z", "e">>},
             capabilities |-> {"refactoring"}],
            [triggers |-> {<<"d", "o", "c", "u", "m", "e", "n", "t">>, <<"r", "e", "a", "d", "m", "e">>},
             capabilities |-> {"documentation"}],
            [triggers |-> {<<"a", "r", "c", "h", "i", "t", "e", "c", "t", "u", "r", "e">>, <<"d", "e", "s", "i", "g", "n">>},
             capabilities |-> {"architecture_design"}],
            [triggers |-> {<<"r", "e", "v", "i", "e", "w">>, <<"a", "n", "a", "l", "y", "z", "e">>},
             capabilities |-> {"code_review", "analysis"}]}
           matched ==
             UNION {r.capabilities :
                      r \in {q \in CapabilityRules :
                               \E t \in q.triggers : includes(lower, t)}}
           required ==
             IF matched = {} THEN {"code_generation", "problem_solving"} ELSE matched
           returned == derived.capabilities
       IN /\ Range(returned) = required
          /\ Len(returned) = Cardinality(required)
          /\ \A sp \in AgentSpecs \cup SelectAgentSpecs :
               \* matching / returned = |required \cap capabilities| / |required|
               Len(matchingOf(newAgent(sp), returned)) * Cardinality(required)
                 = Cardinality(required \cap Range(sp.capabilities)) * Len(returned)

(***************************************************************************)
(* C24  Task-domain classification returns the domain of the first rule,   *)
(* in the order web_development, api_development, microservices,           *)
(* mobile_development, data_science, whose keyword occurs in the           *)
(* lower-cased description, and general_development when none does; the    *)
(* result does not depend on the project context.                          *)
(***************************************************************************)
C24_FirstDomainRule ==
  derived.op = "determineTaskType"
    => LET lower == toLowerCase(description)
           DomainRules ==
             <<[domain |-> "web_development",
           keywords |-> {<<"w", "e", "b">>, <<"f", "r", "o", "n", "t", "e", "n", "d">>, <<"r", "e", "a", "c", "t">>, <<"v", "u", "e">>}],
          [domain |-> "api_development",
           keywords |-> {<<"a", "p", "i">>, <<"b", "a", "c", "k", "e", "n", "d">>, <<"s", "e", "r", "v", "e", "r">>}],
          [domain |-> "microservices",
           keywords |-> {<<"m", "i", "c", "r", "o", "s", "e", "r", "v", "i", "c", "e">>, <<"s", "e", "r", "v", "i", "c", "e">>}],
          [domain |-> "mobile_development",
           keywords |-> {<<"m", "o", "b", "i", "l", "e">>, <<"a", "p", "p">>}],
          [domain |-> "data_science",
           keywords |-> {<<"d", "a", "t", "a">>, <<"m", "l">>, <<"a", "i">>}]>>
           matching ==
             {i \in DOMAIN DomainRules :
                \E k \in DomainRules[i].keywords : includes(lower, k)}
       IN IF matching = {}
          THEN derived.taskType = "general_development"
          ELSE \E i \in matching :
                 /\ \A j \in matching : i <= j
                 /\ derived.taskType = DomainRules[i].domain

\* a description written with capitals holds keywords of the second and of the
\* fourth rule and none of the first: the second rule gave the domain
C24_Witness ==
  /\ derived.op = "determineTaskType"
  /\ derived.taskType = "api_development"
  /\ description = <<"a", "p", "p", " ", "A", "P", "I">>

(***************************************************************************)
(* C25  registerAgent is an upsert by name: after registering a name the   *)
(* registry holds exactly one agent with that name, with status active,    *)
(* currentTasks 0 and all performance counters 0; registering the same     *)
(* spec twice gives the same registry state (apart from id and timestamps) *)
(* as registering it once, and keeps the agent's position in registry      *)
(* iteration order.                                                        *)
(***************************************************************************)
C25_RegisterUpsert ==
  [][agentRet'.op = "registerAgent"
       => LET n == agentRet'.name IN
            /\ DOMAIN agents' = DOMAIN agents \cup {n}
            /\ \A other \in DOMAIN agents \ {n} : agents'[other] = agents[other]
            /\ Cardinality({i \in DOMAIN agentOrder' : agentOrder'[i] = n}) = 1
            /\ agents'[n].name = n
            /\ agents'[n].status = "active"
            /\ agents'[n].currentTasks = 0
            /\ agents'[n].performance.totalTasks = 0
            /\ agents'[n].performance.completedTasks = 0
            /\ agents'[n].performance.failedTasks = 0
            /\ agents'[n].performance.successRate.num = 0
            /\ agentOrder' = IF n \in DOMAIN agents THEN agentOrder
                                                  ELSE Append(agentOrder, n)
            \* the same agentData once more
            /\ \A sp \in AgentSpecs :
                 (sp.name = n /\ agents'[n] = newAgent(sp))
                   => /\ mapSet(agents', n, newAgent(sp)) = agents'
                      /\ orderSet(agentOrder', n) = agentOrder']_vars

\* devin, registered before claude, was just registered again, with another limit
\* than the default registration has, after claude had worked: devin is still
\* first and claude's history is untouched
C25_Witness ==
  /\ agentRet = AgentRet("registerAgent", "devin", "ok")
  /\ agentOrder = <<"devin", "claude">>
  /\ agents["devin"].maxConcurrentTasks = 2
  /\ agents["claude"].performance.totalTasks = 2
  /\ agents["claude"].currentTasks = 1

(***************************************************************************)
(* C26  activateAgent and deactivateAgent change only the agent's status   *)
(* (and heartbeat): currentTasks, maxConcurrentTasks and performance       *)
(* counters are unchanged, and a release for a task reserved before the    *)
(* deactivation still decrements currentTasks and updates the statistics.  *)
(***************************************************************************)
C26_StatusOnly ==
  [][LET n == agentRet'.name IN
       /\ agentRet'.op \in {"deactivateAgent", "activateAgent"}
            => /\ UNCHANGED agentOrder
               /\ IF n \in DOMAIN agents
                  THEN /\ agentRet'.out = "ok"
                       /\ agents' =
                            [agents EXCEPT ![n].status =
                               IF agentRet'.op = "deactivateAgent" THEN "inactive"
                                                                   ELSE "active"]
                  ELSE agentRet'.out = "NotFound" /\ UNCHANGED agents
       /\ ( /\ agentRet'.op = "releaseTaskFromAgent"
            /\ n \in DOMAIN agents
            /\ agents[n].status = "inactive" )
            => /\ agents'[n].status = "inactive"
               /\ agents'[n].currentTasks = Max(0, agents[n].currentTasks - 1)
               /\ agents'[n].performance.totalTasks
                    = agents[n].performance.totalTasks + 1
               /\ agents'[n].performance.completedTasks
                      + agents'[n].performance.failedTasks
                    = agents'[n].performance.totalTasks]_vars

\* an inactive agent that held two reservations has just been released once: one
\* reservation is left and the release is counted
C26_Witness ==
  /\ agentRet = AgentRet("releaseTaskFromAgent", "devin", "ok")
  /\ "devin" \in DOMAIN agents
  /\ agents["devin"].status = "inactive"
  /\ agents["devin"].currentTasks = 1
  /\ agents["devin"].performance.totalTasks = 1

C28_BatchGroups ==
  job.pc # "none"
    => LET called == IF job.pc = "all" THEN Range(job.batch) ELSE {}
           inFlight == {t \in called : t \notin DOMAIN job.settled}
           group(t) == (t - 1) \div job.maxConcurrent
       IN /\ Cardinality(inFlight) <= job.maxConcurrent
          /\ \A t \in called :
               \* the group in flight is whole and consecutive
               /\ \A u \in 1..job.tools : group(u) = group(t) <=> u \in called
               \* every earlier group has finished
               /\ \A u \in 1..job.tools :
                    group(u) < group(t) => job.outcome[u] # "none"
               \* no later group has started
               /\ \A u \in 1..job.tools :
                    group(u) > group(t) => job.outcome[u] = "none"

\* the two tools of the second group are in flight, after the first group has
\* finished with one failure
C28_Witness ==
  /\ job.pc = "all" /\ job.maxConcurrent = 2
  /\ job.batch = <<3, 4>> /\ job.settled = EmptyMap
  /\ job.outcome[1] = "rejected" /\ job.outcome[2] = "resolved"

(***************************************************************************)
(* C29  Transitions of the recorded task status are enforced by the state  *)
(* machine itself: an attempt to record a transition outside the allowed   *)
(* set (for example completed -> failed, or a terminal status back to      *)
(* in_progress) is rejected and leaves the recorded status unchanged, so a *)
(* task recorded as completed is never later recorded as failed.           *)
(* No step changes a recorded status that is completed or failed.          *)
(***************************************************************************)
C29_TransitionsEnforced ==
  [][\A d \in Delegations :
       dbTasks[d].status \in {"completed", "failed"}
         => dbTasks'[d].status = dbTasks[d].status]_vars

(***************************************************************************)
(* C30  Every task created by addTask gets an id that differs from the id  *)
(* of every other task ever created by the queue, whatever fields the      *)
(* caller's taskData contains, and the new task always starts with status  *)
(* queued.                                                                 *)
(***************************************************************************)
C30_UniqueTaskIds ==
  [][Len(tasks') > Len(tasks)
       => LET created == tasks'[Len(tasks')] IN
            /\ created.status = "queued"
            /\ \A o \in DOMAIN tasks : tasks[o].id # created.id]_vars

(***************************************************************************)
(* C31  The in-flight set holds exactly the ids of the tasks that are      *)
(* being executed: an id is added at dispatch and removed when that task   *)
(* reaches completed or failed, and only then.  So a task that is still    *)
(* being executed has its id in the set, every id of the set belongs to a  *)
(* task being executed, and the set never holds the id of a task that is   *)
(* completed or failed.                                                    *)
(***************************************************************************)
C31_InFlightExact ==
  /\ \A o \in DOMAIN tasks : executing[o] > 0 => tasks[o].id \in processing
  /\ \A id \in processing :
       \E o \in DOMAIN tasks : tasks[o].id = id /\ executing[o] > 0
  /\ \A o \in DOMAIN tasks :
       tasks[o].status \in {"completed", "failed"} => tasks[o].id \notin processing

(***************************************************************************)
(* C32  Every task id is held by at most one of the queue, the in-flight   *)
(* set, the completed map and the failed map, and occurs at most once in   *)
(* the queue, whatever the order of retryTask and the two handlers of a    *)
(* failure (the catch of processTask and the .catch callback of            *)
(* processQueue).                                                          *)
(***************************************************************************)
C32_OneHolder ==
  \A o \in DOMAIN tasks :
    LET id == tasks[o].id
        inQueue == Cardinality({i \in DOMAIN queue : tasks[queue[i]].id = id})
        held(S) == IF id \in S THEN 1 ELSE 0
    IN inQueue + held(processing) + held(DOMAIN completed) + held(DOMAIN failed) <= 1

(***************************************************************************)
(* C33  For every registered agent, currentTasks equals the number of      *)
(* delegations that have reserved capacity on that agent and have not yet  *)
(* released it, so the number of delegations in progress on an agent never *)
(* exceeds its maxConcurrentTasks; this also holds when registerAgent is   *)
(* called for a name that has reservations in flight.                      *)
(***************************************************************************)
C33_CountMatchesReservations ==
  \A n \in DOMAIN agents :
    LET holding == {d \in Delegations :
                      /\ deleg[d].reserved
                      /\ deleg[d].agent = n
                      /\ deleg[d].relOk + deleg[d].relFail = 0}
    IN /\ agents[n].currentTasks = Cardinality(holding)
       /\ Cardinality({d \in holding : InFlight(d)}) <= agents[n].maxConcurrentTasks

(***************************************************************************)
(* C34  delegateToAIBuilder never reserves capacity on an agent whose      *)
(* status is inactive at the time of the reservation, whether the agent    *)
(* was chosen by selectBestAgent or named by preferred_agent: every step   *)
(* that reserves capacity for a delegation does so on an active agent.     *)
(***************************************************************************)
C34_ReservesOnActiveOnly ==
  [][\A d \in Delegations :
       (deleg'[d].reserved /\ ~deleg[d].reserved)
         => agents[deleg[d].agent].status = "active"]_vars

(***************************************************************************)
(* C38  A call of delegateToAIBuilder that has returned an error response  *)
(* leaves no task record in a non-terminal status: the record it created,  *)
(* if any, is recorded as failed; in particular when the reservation of    *)
(* the agent fails after the record was created.                           *)
(***************************************************************************)
C38_ErrorLeavesNoOpenRecord ==
  \A d \in Delegations :
    (deleg[d].pc = "done" /\ deleg[d].response # "ok")
      => dbTasks[d].status \in {"none", "failed"}

(***************************************************************************)
(* C35  At most one dispatch loop is active at any time, for every         *)
(* sequence of start() and stop() calls: also when start() is called       *)
(* twice, and when stop() is followed by start() while the loop that was   *)
(* stopped is still waiting for its timer.                                 *)
(***************************************************************************)
C35_SingleLoop == loops <= 1

(***************************************************************************)
(* C36  After stop() has returned, and until start() is called again, no   *)
(* task is taken from the queue or dispatched: in every step that begins   *)
(* and ends with the queue stopped no execution begins and nothing joins   *)
(* the in-flight set, a queued task leaves the queue only by cancelTask,   *)
(* a task that is added or retried is in the queue with status queued, and *)
(* an execution that ends leaves its task completed or failed.             *)
(***************************************************************************)
C36_StoppedQueueHolds ==
  [][(~isRunning /\ ~isRunning')
       => /\ \A o \in DOMAIN tasks : executing'[o] <= executing[o]
          /\ processing' \subseteq processing
          /\ \A o \in Range(queue) :
               o \in Range(queue') \/ tasks'[o].status = "cancelled"
          /\ \A o \in DOMAIN tasks' :
               (o \notin DOMAIN tasks \/ tasks'[o].retryCount > tasks[o].retryCount)
                 => o \in Range(queue') /\ tasks'[o].status = "queued"
          /\ \A o \in DOMAIN tasks :
               executing'[o] < executing[o]
                 => tasks'[o].status \in {"completed", "failed"}]_vars

\* the queue is stopped and its loop has ended, while a task that was retried
\* waits in the queue and another task is still being executed
C36_Witness ==
  /\ ~isRunning
  /\ loops = 0
  /\ \E o \in Range(queue) : tasks[o].retryCount > 0 /\ tasks[o].status = "queued"
  /\ \E u \in DOMAIN tasks : executing[u] > 0

(***************************************************************************)
(* C37  Liveness.  While the queue is started, the executor ends every     *)
(* execution and only finitely many tasks are added or retried, every task *)
(* that is in the queue is eventually dispatched and reaches completed or  *)
(* failed, unless it is cancelled first: no queued task, of whatever       *)
(* priority, waits for ever.                                               *)
(***************************************************************************)
C37_QueuedTaskEnds ==
  \A o \in 1..MaxTasks :
    (o \in DOMAIN tasks /\ isRunning /\ tasks[o].status = "queued")
      ~> (o \in DOMAIN tasks /\ tasks[o].status \in {"completed", "failed", "cancelled"})

\* a task of low priority, added while an urgent task exists, has failed, has
\* been retried and is completed
C37_Witness ==
  /\ isRunning
  /\ \E o, u \in DOMAIN tasks :
       /\ tasks[o].priority = "low"
       /\ tasks[o].retryCount > 0
       /\ tasks[o].status = "completed"
       /\ tasks[u].priority = "urgent"

(***************************************************************************)
(* C39  updateTaskStatus on an existing task id succeeds for every         *)
(* lifecycle status: every column its UPDATE writes is a column of the     *)
(* tasks table that createTables creates, so the statement runs.           *)
(***************************************************************************)
C39_UpdateSucceeds ==
  [][LET ret == store'.ret IN
       (/\ ret.op = "updateTaskStatus"
        /\ ret.status \in LifecycleStatuses
        /\ \E i \in DOMAIN store.tasks : store.tasks[i].task_id = ret.task_id)
         => ret.columns \subseteq tasksColumns /\ ret.outcome = "ok"]_vars

(***************************************************************************)
(* C40  Referential integrity on the delegation path, with foreign keys    *)
(* enforced: createTask called with a new task id and the id of an         *)
(* in-memory agent of the registry does not fail, its agent_id referring   *)
(* to a row of ai_agents; and logTaskExecution called with the task id of  *)
(* a task row and the id of an in-memory agent does not fail, its task_id  *)
(* and agent_id referring to rows of tasks and ai_agents.                  *)
(***************************************************************************)
C40_ReferencesResolve ==
  [][LET ret == store'.ret IN
       /\ (/\ ret.op = "createTask"
           /\ ret.agent_id.kind = "uuid"
           /\ \A i \in DOMAIN store.tasks : store.tasks[i].task_id # ret.task_id)
            => ret.outcome = "ok" /\ references(store'.ai_agents, ret.agent_id)
       /\ (/\ ret.op = "logTaskExecution"
           /\ ret.agent_id.kind = "uuid"
           /\ \E i \in DOMAIN store.tasks : store.tasks[i].task_id = ret.task_id)
            => ret.outcome = "ok"]_vars

====
